---------------------------- MODULE Spec2Model ----------------------------
(***************************************************************************)
(* A model of the AMLL TTML database tooling: the timestamp codec          *)
(* (msToTimestamp / parseTimespan), the whitespace normalizer              *)
(* (normalizeLyricLine), the lyric validator (checkLyric) and the TTML     *)
(* reader / writer (parseLyricInner / exportTTMLTextInner).                *)
(*                                                                         *)
(* Text is a sequence of one-character strings.  JavaScript numbers are    *)
(* IEEE-754 doubles: the arithmetic the codec performs on them is modelled *)
(* bit-exactly on multi-limb naturals, because the codec's results depend  *)
(* on its rounding.                                                        *)
(***************************************************************************)
EXTENDS Integers, Sequences, FiniteSets, TLC

VARIABLES
    tsPc,       \* timestamp codec: "off" | "ms" | "text" | "formatted" | "parsed"
    tsMs,       \* the millisecond value handed to msToTimestamp
    tsText,     \* the timestamp text (written by msToTimestamp or given)
    tsParsed,   \* the result of parseTimespan
    nlPc,       \* normalizer: "off" | "input" | "once" | "twice"
    nlImpl,     \* which of the two normalizeLyricLine sources is at work
    nlLine,     \* the line handed to normalizeLyricLine
    nlOnce,     \* its result (newLine, changed) and the log it wrote
    nlTwice,    \* the result of normalizing nlOnce.newLine, with a fresh log
    ckPc,       \* validator: "off" | "input" | "checked" | "threw"
    ckLyric,    \* the lines handed to checkLyric
    ckErrors,   \* the defects checkLyric returned
    rtPc,       \* reader / writer: "off" | "source" | "rejected" | "parsed"
                \*                  | "written" | "reparsed" | "rewritten"
    rtSource,   \* the source document handed to parseLyricInner
    rtLyric,    \* what parseLyricInner made of it
    rtWritten,  \* the document exportTTMLTextInner wrote for rtLyric
    rtAgain,    \* what parseLyricInner made of the written text
    rtRewritten, \* the document exportTTMLTextInner wrote for rtAgain
    prPc,       \* stale pull request closer: "off" | "open" | "done"
    prPull,     \* the pull request: updated_at, labels, reviews, head commit
    prDryRun,   \* IS_DRY_RUN
    prComments, \* the comments the closer wrote on the pull request
    prState,    \* the pull request's state: "open" | "closed"
    rbPc,       \* folder rebuild: "off" | "raw" | "built"
    rbRaw,      \* the files of raw-lyrics in the order readdir lists them
    rbOut,      \* the files published in the platform folders
    tmPc,       \* experimental check: "off" | "issue" | "processed"
    tmOptions,  \* the text under the heading of the lyric options in the issue
    tmFile,     \* the paragraphs of the file submitted
    tmMode,     \* the timing mode the file was processed in
    sbPc,       \* submission check: "off" | "open"
    sbIssue,    \* the issue: its body, its author, the file behind its link
    sbRuns,     \* the runs of the check that took the issue up
    sbSt        \* the comments, state, branch, file and pull request of the issue

tsVars == <<tsPc, tsMs, tsText, tsParsed>>

nlVars == <<nlPc, nlImpl, nlLine, nlOnce, nlTwice>>

ckVars == <<ckPc, ckLyric, ckErrors>>

rtVars == <<rtPc, rtSource, rtLyric, rtWritten, rtAgain, rtRewritten>>

prVars == <<prPc, prPull, prDryRun, prComments, prState>>

rbVars == <<rbPc, rbRaw, rbOut>>

tmVars == <<tmPc, tmOptions, tmFile, tmMode>>

\* The variables of the repository's other scripts.
sbVars == <<sbPc, sbIssue, sbRuns, sbSt>>

toolVars == <<prVars, rbVars, tmVars, sbVars>>

vars == <<tsPc, tsMs, tsText, tsParsed, nlPc, nlImpl, nlLine, nlOnce, nlTwice,
          ckPc, ckLyric, ckErrors, rtPc, rtSource, rtLyric, rtWritten, rtAgain,
          rtRewritten, prPc, prPull, prDryRun, prComments, prState,
          rbPc, rbRaw, rbOut,
          tmPc, tmOptions, tmFile, tmMode,
          sbPc, sbIssue, sbRuns, sbSt>>

(***************************************************************************)
(* Natural numbers beyond 32-bit machine integers: sequences of            *)
(* limbs in base LimbBase, least significant first, no leading zero limb.  *)
(***************************************************************************)
LimbBits == 15

LimbBase == 32768

Front(s) == SubSeq(s, 1, Len(s) - 1)

RECURSIVE Pow2(_)
Pow2(n) == IF n = 0 THEN 1 ELSE 2 * Pow2(n - 1)

RECURSIVE Trim(_)
Trim(a) == IF a # <<>> /\ a[Len(a)] = 0 THEN Trim(Front(a)) ELSE a

RECURSIVE LimbsOfNat(_)
LimbsOfNat(n) ==
    IF n = 0 THEN <<>> ELSE <<n % LimbBase>> \o LimbsOfNat(n \div LimbBase)

RECURSIVE NatOfLimbs(_)
NatOfLimbs(a) ==
    IF a = <<>> THEN 0 ELSE Head(a) + LimbBase * NatOfLimbs(Tail(a))

RECURSIVE AddLimbs(_, _, _)
\* a + b + c
AddLimbs(a, b, c) ==
    IF a = <<>> /\ b = <<>> THEN LimbsOfNat(c)
    ELSE LET s == (IF a = <<>> THEN 0 ELSE Head(a))
                    + (IF b = <<>> THEN 0 ELSE Head(b)) + c
         IN <<s % LimbBase>> \o AddLimbs(IF a = <<>> THEN a ELSE Tail(a),
                                         IF b = <<>> THEN b ELSE Tail(b),
                                         s \div LimbBase)

RECURSIVE MulAdd(_, _, _)
\* a * n + c, for n < LimbBase
MulAdd(a, n, c) ==
    IF a = <<>> THEN LimbsOfNat(c)
    ELSE <<(Head(a) * n + c) % LimbBase>>
            \o MulAdd(Tail(a), n, (Head(a) * n + c) \div LimbBase)

MulLimbs(a, n) == Trim(MulAdd(a, n, 0))

RECURSIVE DivFrom(_, _, _)
\* (r * LimbBase^Len(a) + a) divided by d, for r < d < LimbBase: the
\* remainder, followed by the limbs of the quotient.
DivFrom(a, d, r) ==
    IF a = <<>> THEN <<r>>
    ELSE DivFrom(Front(a), d, (r * LimbBase + a[Len(a)]) % d)
            \o <<(r * LimbBase + a[Len(a)]) \div d>>

\* a * 2^k
ShiftLeft(a, k) ==
    IF a = <<>> THEN a
    ELSE [i \in 1..(k \div LimbBits) |-> 0] \o MulLimbs(a, Pow2(k % LimbBits))

\* a divided by 2^k: the quotient, and whether a remainder was lost.
ShiftRight(a, k) ==
    LET w    == k \div LimbBits
        kept == SubSeq(a, w + 1, Len(a))
        d    == DivFrom(kept, Pow2(k % LimbBits), 0)
    IN [q    |-> Trim(Tail(d)),
        lost |-> d[1] # 0 \/ \E i \in 1..w : i <= Len(a) /\ a[i] # 0]

\* a modulo 2^k
LowBits(a, k) ==
    LET w == k \div LimbBits
    IN IF Len(a) <= w THEN a
       ELSE Trim(SubSeq(a, 1, w) \o <<a[w + 1] % Pow2(k % LimbBits)>>)

RECURSIVE BitLenNat(_)
BitLenNat(n) == IF n = 0 THEN 0 ELSE 1 + BitLenNat(n \div 2)

\* The number of significant bits of a
BitLen(a) ==
    IF a = <<>> THEN 0 ELSE LimbBits * (Len(a) - 1) + BitLenNat(a[Len(a)])

IsOdd(a) == a # <<>> /\ a[1] % 2 = 1

(***************************************************************************)
(* IEEE-754 double precision, non-negative finite values only.  A value is *)
(* [m, exp], meaning m * 2^exp, where m has at most MantissaBits           *)
(* significant bits.                                                       *)
(***************************************************************************)
MantissaBits == 53

\* Limbs the long division k / d carries after the binary point before the
\* result is rounded; the remainder beyond them is kept as a sticky flag.
DivisionLimbs == 6

\* Round the exact value (m + sticky) * 2^exp to the nearest double, ties to
\* even.
RoundDouble(m, exp, sticky) ==
    IF BitLen(m) <= MantissaBits THEN [m |-> m, exp |-> exp]
    ELSE LET k    == BitLen(m) - MantissaBits
             g    == ShiftRight(m, k - 1)        \* mantissa and guard bit
             top  == ShiftRight(g.q, 1).q
             up   == IsOdd(g.q) /\ (g.lost \/ sticky \/ IsOdd(top))
         IN [m |-> AddLimbs(top, <<>>, IF up THEN 1 ELSE 0), exp |-> exp + k]

RECURSIVE FracDiv(_, _, _)
\* n limbs of the expansion of r / d (r < d) after the point, most
\* significant last, preceded by the remainder left.
FracDiv(r, d, n) ==
    IF n = 0 THEN <<r>>
    ELSE FracDiv((r * LimbBase) % d, d, n - 1) \o <<(r * LimbBase) \div d>>

\* The double nearest to the rational k / d (d < LimbBase): the value of
\* the numeric literal k/d (Number("1.005")) and of the division k / d of
\* two integers.
DoubleOfRatio(k, d) ==
    LET f == FracDiv(k % d, d, DivisionLimbs)
    IN RoundDouble(Trim(Tail(f) \o LimbsOfNat(k \div d)),
                   -(LimbBits * DivisionLimbs), f[1] # 0)

\* x + a for a non-negative integer a.
DoubleAddNat(x, a) ==
    IF x.exp >= 0
    THEN RoundDouble(AddLimbs(ShiftLeft(x.m, x.exp), LimbsOfNat(a), 0), 0, FALSE)
    ELSE RoundDouble(AddLimbs(x.m, ShiftLeft(LimbsOfNat(a), -x.exp), 0),
                     x.exp, FALSE)

\* x * n for a non-negative integer n < LimbBase.
DoubleMulNat(x, n) == RoundDouble(MulLimbs(x.m, n), x.exp, FALSE)

\* The whole part of x (Math.floor), and the part after the binary point as
\* a multiple of 2^x.exp.
DoubleFloor(x) ==
    IF x.exp >= 0 THEN NatOfLimbs(ShiftLeft(x.m, x.exp))
    ELSE NatOfLimbs(ShiftRight(x.m, -x.exp).q)

DoubleFrac(x) == IF x.exp >= 0 THEN <<>> ELSE LowBits(x.m, -x.exp)

(***************************************************************************)
(* Decimal text.                                                           *)
(***************************************************************************)
DigitChars == <<"0", "1", "2", "3", "4", "5", "6", "7", "8", "9">>

IsDigit(c) == \E i \in 1..10 : DigitChars[i] = c

DigitVal(c) == (CHOOSE i \in 1..10 : DigitChars[i] = c) - 1

RECURSIVE DecimalOf(_)
\* Number.prototype.toString of a non-negative integer
DecimalOf(n) ==
    IF n < 10 THEN <<DigitChars[n + 1]>>
    ELSE DecimalOf(n \div 10) \o <<DigitChars[(n % 10) + 1]>>

RECURSIVE NumberOfDigits(_)
\* Number("0075") of a digit string
NumberOfDigits(ds) ==
    IF ds = <<>> THEN 0
    ELSE 10 * NumberOfDigits(Front(ds)) + DigitVal(ds[Len(ds)])

RECURSIVE Pow10(_)
Pow10(n) == IF n = 0 THEN 1 ELSE 10 * Pow10(n - 1)

\* String.prototype.padStart(n, "0")
PadStart(s, n) == IF Len(s) >= n THEN s ELSE [i \in 1..(n - Len(s)) |-> "0"] \o s


(***************************************************************************)
(* The timestamp codec.                                                    *)
(***************************************************************************)
\* The value Infinity of the source: larger than every millisecond value
\* the model uses.
Infinity == 2000000000

\* Number.isSafeInteger, on the values the model hands it (integers and
\* Infinity).
IsSafeInteger(v) == v # Infinity

\* Number.prototype.toFixed(3) of the non-negative double x: the integer n
\* for which n / 1000 is nearest to x (the larger n on a tie), written with
\* three decimals.
ToFixed3(x) ==
    LET p == [m |-> MulLimbs(x.m, 1000), exp |-> x.exp]     \* x * 1000, exact
        half == IF p.exp < 0 /\ IsOdd(ShiftRight(p.m, -p.exp - 1).q)
                THEN 1 ELSE 0
        n == DoubleFloor(p) + half
    IN DecimalOf(n \div 1000) \o <<".">> \o PadStart(DecimalOf(n % 1000), 3)

msToTimestampBody(timeMS) ==
    LET x     == DoubleOfRatio(timeMS, 1000)          \* timeMS / 1000
        whole == DoubleFloor(x)
        \* secs = timeMS % 60: exact
        secs  == IF x.exp >= 0 THEN [m |-> LimbsOfNat(whole % 60), exp |-> 0]
                 ELSE [m |-> AddLimbs(DoubleFrac(x),
                                 ShiftLeft(LimbsOfNat(whole % 60), -x.exp), 0),
                       exp |-> x.exp]
        rest  == whole \div 60                        \* (timeMS - secs) / 60
        mins  == rest % 60
        hrs   == rest \div 60                         \* (timeMS - mins) / 60
        h     == PadStart(DecimalOf(hrs), 2)
        m     == PadStart(DecimalOf(mins), 2)
        s     == PadStart(ToFixed3(secs), 6)
    IN IF hrs > 0 THEN h \o <<":">> \o m \o <<":">> \o s
       ELSE m \o <<":">> \o s

msToTimestamp(timeMS) ==
    IF ~IsSafeInteger(timeMS) \/ timeMS < 0
    THEN <<"0", "0", ":", "0", "0", ".", "0", "0", "0">>
    ELSE IF timeMS = Infinity
    THEN <<"9", "9", ":", "9", "9", ".", "9", "9", "9">>
    ELSE msToTimestampBody(timeMS)

RECURSIVE DigitRun(_, _)
\* The length of the longest run of digits of t that starts at position i.
DigitRun(t, i) ==
    IF i <= Len(t) /\ IsDigit(t[i]) THEN 1 + DigitRun(t, i + 1) ELSE 0

\* The group sec, [0-9]+([.:]([0-9]+))?, matched greedily at position i
\* (where at least one digit stands): its whole and fraction digits.
SecGroup(t, i) ==
    LET r == DigitRun(t, i)
        j == i + r
        f == IF j <= Len(t) /\ t[j] \in {".", ":"} THEN DigitRun(t, j + 1) ELSE 0
    IN [whole |-> SubSeq(t, i, j - 1), frac |-> SubSeq(t, j + 1, j + f)]

\* timeRegexp.exec: whether the expression matches, and its named groups.
\* The expression is anchored at the start only.
timeRegexp(t) ==
    LET r1 == DigitRun(t, 1)
        c1 == r1 >= 1 /\ r1 + 1 <= Len(t) /\ t[r1 + 1] = ":"
        r2 == IF c1 THEN DigitRun(t, r1 + 2) ELSE 0
        c2 == c1 /\ r2 >= 1 /\ r1 + r2 + 2 <= Len(t) /\ t[r1 + r2 + 2] = ":"
        r3 == IF c2 THEN DigitRun(t, r1 + r2 + 3) ELSE 0
    IN IF c2 /\ r3 >= 1
       THEN [ok |-> TRUE, hour |-> SubSeq(t, 1, r1), min |-> SubSeq(t, r1 + 2, r1 + r2 + 1),
             sec |-> SecGroup(t, r1 + r2 + 3)]
       ELSE IF c1 /\ r2 >= 1
       THEN [ok |-> TRUE, hour |-> <<>>, min |-> SubSeq(t, 1, r1), sec |-> SecGroup(t, r1 + 2)]
       ELSE IF r1 >= 1
       THEN [ok |-> TRUE, hour |-> <<>>, min |-> <<>>, sec |-> SecGroup(t, 1)]
       ELSE [ok |-> FALSE]

\* The result of parseTimespan: the number returned, or the TypeError thrown.
Returned(n) == [thrown |-> FALSE, value |-> n]

Threw == [thrown |-> TRUE, value |-> 0]

parseTimespan(timeSpan) ==
    LET matches == timeRegexp(timeSpan)
    IN IF ~matches.ok THEN Threw
       ELSE LET hour == NumberOfDigits(matches.hour)
                min  == NumberOfDigits(matches.min)
                d    == Pow10(Len(matches.sec.frac))
                sec  == DoubleOfRatio(
                            NumberOfDigits(matches.sec.whole) * d
                                + NumberOfDigits(matches.sec.frac), d)
            IN Returned(DoubleFloor(DoubleMulNat(
                   DoubleAddNat(sec, hour * 3600 + min * 60), 1000)))

(***************************************************************************)
(* Text and whitespace.                                                    *)
(***************************************************************************)
Range(s) == {s[i] : i \in 1..Len(s)}

\* The characters the class \s and String.prototype.trim take for
\* whitespace, among those the model writes.
WhiteChars == {" ", "\t"}

IsWhite(c) == c \in WhiteChars

AllWhite(t) == \A i \in 1..Len(t) : IsWhite(t[i])

\* The lengths of the groups (\s*) at the two ends of /^(\s*)([\s\S]*?)(\s*)$/
LeadingLen(t) ==
    IF AllWhite(t) THEN Len(t)
    ELSE (CHOOSE i \in 1..Len(t) :
              ~IsWhite(t[i]) /\ \A k \in 1..(i - 1) : IsWhite(t[k])) - 1

TrailingLen(t) ==
    IF AllWhite(t) THEN 0
    ELSE Len(t) - (CHOOSE i \in 1..Len(t) :
                       ~IsWhite(t[i]) /\ \A k \in (i + 1)..Len(t) : IsWhite(t[k]))

\* String.prototype.trim
TrimText(t) == SubSeq(t, LeadingLen(t) + 1, Len(t) - TrailingLen(t))

RECURSIVE DropWhite(_)
DropWhite(t) == IF t # <<>> /\ IsWhite(t[1]) THEN DropWhite(Tail(t)) ELSE t

\* A join that leaves every run of whitespace as it is.
SplitJoinKeepsRuns(t) == t

RECURSIVE SplitJoin(_)
\* t.split(/\s+/).join(' '): every run of whitespace becomes one space.
SplitJoin(t) ==
    IF t = <<>> THEN <<>>
    ELSE IF IsWhite(t[1]) THEN <<" ">> \o SplitJoin(DropWhite(t))
    ELSE <<t[1]>> \o SplitJoin(Tail(t))

\* A syllable's word field when it holds no string.
NotAString == <<"undefined">>

IsString(t) == t # NotAString

Word(text, startTime, endTime) ==
    [word |-> text, startTime |-> startTime, endTime |-> endTime, emptyBeat |-> 0]

(***************************************************************************)
(* normalizeLyricLine (utils, the pending-space counter).  The running     *)
(* state of one call: finalWords, pendingSpaces, hasChanges and the log.   *)
(***************************************************************************)
\* The syllable processPendingSpaces synthesizes.
SpaceWord == Word(<<" ">>, 0, 0)

\* logChange: the log holds each message once; hasChanges is set anyway.
logChange(st, message) ==
    [st EXCEPT !.logs = IF message \in Range(@) THEN @ ELSE Append(@, message),
               !.hasChanges = TRUE]

\* A flush that writes a space syllable only for a run of several spaces.
processPendingSpacesOnlyRuns(st) ==
    IF st.pendingSpaces = 0 THEN st
    ELSE IF Len(st.finalWords) > 0 /\ st.pendingSpaces > 1
    THEN [logChange([st EXCEPT !.finalWords = Append(@, SpaceWord)],
                    <<"merged", st.pendingSpaces>>) EXCEPT !.pendingSpaces = 0]
    ELSE [st EXCEPT !.pendingSpaces = 0]

processPendingSpaces(st) ==
    IF st.pendingSpaces = 0 THEN st
    ELSE IF Len(st.finalWords) > 0
    THEN LET pushed == [st EXCEPT !.finalWords = Append(@, SpaceWord)]
             logged == IF st.pendingSpaces > 1
                       THEN logChange(pushed, <<"merged", st.pendingSpaces>>)
                       ELSE pushed
         IN [logged EXCEPT !.pendingSpaces = 0]
    ELSE [logChange(st, <<"removed", st.pendingSpaces>>) EXCEPT !.pendingSpaces = 0]

\* One turn of the loop over line.words.
normalizeWord(st, wordObj) ==
    IF ~IsString(wordObj.word) THEN logChange(st, <<"invalid">>)
    ELSE LET text          == wordObj.word
             leadingSpace  == SubSeq(text, 1, LeadingLen(text))
             coreText      == TrimText(text)
             trailingSpace == SubSeq(text, Len(text) - TrailingLen(text) + 1, Len(text))
         IN IF coreText = <<>>
            THEN IF Len(text) > 0
                 THEN logChange([st EXCEPT !.pendingSpaces = @ + 1],
                                <<"whitespace-only", text>>)
                 ELSE st
            ELSE LET s1 == IF leadingSpace # <<>>
                           THEN logChange([st EXCEPT !.pendingSpaces = @ + 1],
                                          <<"leading", text>>)
                           ELSE st
                     s2 == processPendingSpaces(s1)
                     normalizedCoreText == SplitJoin(coreText)
                     s3 == IF coreText # normalizedCoreText
                           THEN logChange(s2, <<"internal", coreText>>)
                           ELSE s2
                     s4 == [s3 EXCEPT !.finalWords =
                               Append(@, [wordObj EXCEPT !.word = normalizedCoreText])]
                 IN IF trailingSpace # <<>>
                    THEN logChange([s4 EXCEPT !.pendingSpaces = @ + 1],
                                   <<"trailing", text>>)
                    ELSE s4

RECURSIVE normalizeWords(_, _)
normalizeWords(st, words) ==
    IF words = <<>> THEN st
    ELSE normalizeWords(normalizeWord(st, Head(words)), Tail(words))

\* normalizeLyricLine(line, lineIndex, logs): newLine, changed, and the log
\* after the call.
normalizeLyricLine(line, logs) ==
    IF Len(line.words) = 0
    THEN [newLine |-> line, changed |-> FALSE, logs |-> logs]
    ELSE LET scanned == normalizeWords([finalWords |-> <<>>, pendingSpaces |-> 0,
                                        hasChanges |-> FALSE, logs |-> logs],
                                       line.words)
             st == IF scanned.pendingSpaces > 0
                   THEN logChange(scanned, <<"removed", scanned.pendingSpaces>>)
                   ELSE scanned
         IN [newLine |-> [line EXCEPT !.words = st.finalWords],
             changed |-> st.hasChanges \/ st.finalWords # line.words,
             logs    |-> st.logs]

(***************************************************************************)
(* normalizeLyricLine, the other source of it (the pending-space objects): *)
(* a syllable counts as a space by its zero timestamps.                    *)
(***************************************************************************)
\* logChange(message, isWarning): a warning does not set hasChanges.
logWarning(st, message) ==
    [st EXCEPT !.logs = IF message \in Range(@) THEN @ ELSE Append(@, message)]

processPendingSpaceObjects(st, isTrailing) ==
    IF st.pendingSpaces = 0 THEN st
    ELSE IF isTrailing \/ Len(st.finalWords) = 0
    THEN [logChange(st, <<"removed", st.pendingSpaces>>) EXCEPT !.pendingSpaces = 0]
    ELSE [logChange(st, <<"merged", st.pendingSpaces>>)
             EXCEPT !.finalWords = Append(@, SpaceWord), !.pendingSpaces = 0]

normalizeWordByTime(st, wordObj) ==
    IF ~IsString(wordObj.word) THEN logWarning(st, <<"invalid">>)
    ELSE IF wordObj.startTime = 0 /\ wordObj.endTime = 0          \* isSpace
    THEN IF TrimText(wordObj.word) = <<>>
         THEN [st EXCEPT !.pendingSpaces = @ + 1]
         ELSE LET s1 == logWarning(processPendingSpaceObjects(st, FALSE),
                                   <<"untimed", wordObj.word>>)
              IN [s1 EXCEPT !.finalWords = Append(@, wordObj)]
    ELSE LET s1 == processPendingSpaceObjects(st, FALSE)
             originalText   == wordObj.word
             normalizedText == SplitJoin(TrimText(originalText))
         IN IF originalText # normalizedText
            THEN IF normalizedText = <<>>
                 THEN [s1 EXCEPT !.finalWords =
                          Append(@, [wordObj EXCEPT !.word = <<" ">>])]
                 ELSE [logChange(s1, <<"internal", originalText>>)
                          EXCEPT !.finalWords =
                              Append(@, [wordObj EXCEPT !.word = normalizedText])]
            ELSE [s1 EXCEPT !.finalWords = Append(@, wordObj)]

RECURSIVE normalizeWordsByTime(_, _)
normalizeWordsByTime(st, words) ==
    IF words = <<>> THEN st
    ELSE normalizeWordsByTime(normalizeWordByTime(st, Head(words)), Tail(words))

normalizeLyricLineByTime(line, logs) ==
    IF Len(line.words) = 0
    THEN [newLine |-> line, changed |-> FALSE, logs |-> logs]
    ELSE LET st == processPendingSpaceObjects(
                       normalizeWordsByTime([finalWords |-> <<>>, pendingSpaces |-> 0,
                                             hasChanges |-> FALSE, logs |-> logs],
                                            line.words),
                       TRUE)
         IN [newLine |-> [line EXCEPT !.words = st.finalWords],
             changed |-> st.hasChanges \/ st.finalWords # line.words,
             logs    |-> st.logs]

(***************************************************************************)
(* checkLyric (lyric-checker).  A defect is recorded by its kind and the   *)
(* 1-based line and syllable numbers its message names (0 where the        *)
(* message names none).                                                    *)
(***************************************************************************)
Defect(kind, line, word) == [kind |-> kind, line |-> line, word |-> word]

RECURSIVE JoinWords(_)
\* line.words.map(v => v.word).join(""): a word that is undefined joins as
\* the empty text.
JoinWords(words) ==
    IF words = <<>> THEN <<>>
    ELSE (IF IsString(Head(words).word) THEN Head(words).word ELSE <<>>)
            \o JoinWords(Tail(words))

\* A syllable check that does not pass over white space.
checkWordUnguarded(id, word, wordIndex) ==
    (IF word.startTime < 0
     THEN <<Defect("wordStart", id + 1, wordIndex + 1)>> ELSE <<>>)
    \o (IF word.endTime < word.startTime
        THEN <<Defect("wordEnd", id + 1, wordIndex + 1)>> ELSE <<>>)

\* The callback of line.words.forEach, for the word at wordIndex (from 0)
\* of the line with the given id (from 0).
checkWord(id, word, wordIndex) ==
    IF Len(TrimText(word.word)) > 0
    THEN (IF word.startTime < 0
          THEN <<Defect("wordStart", id + 1, wordIndex + 1)>> ELSE <<>>)
         \o (IF word.endTime < word.startTime
             THEN <<Defect("wordEnd", id + 1, wordIndex + 1)>> ELSE <<>>)
    ELSE <<>>

RECURSIVE checkWords(_, _, _)
checkWords(id, words, wordIndex) ==
    IF wordIndex >= Len(words) THEN <<>>
    ELSE checkWord(id, words[wordIndex + 1], wordIndex)
            \o checkWords(id, words, wordIndex + 1)

\* A loop body that checks the line's interval whether or not the line
\* has text.
checkLineAlwaysTimed(id, line) ==
    (IF Len(TrimText(JoinWords(line.words))) > 0
     THEN checkWords(id, line.words, 0)
     ELSE <<Defect("lineEmpty", id + 1, 0)>>)
    \o (IF line.startTime < 0 THEN <<Defect("lineStart", id + 1, 0)>> ELSE <<>>)
    \o (IF line.endTime < line.startTime
        THEN <<Defect("lineEnd", id + 1, 0)>> ELSE <<>>)

\* The body of the loop over the lines.
checkLine(id, line) ==
    IF Len(TrimText(JoinWords(line.words))) > 0
    THEN checkWords(id, line.words, 0)
         \o (IF line.startTime < 0 THEN <<Defect("lineStart", id + 1, 0)>> ELSE <<>>)
         \o (IF line.endTime < line.startTime
             THEN <<Defect("lineEnd", id + 1, 0)>> ELSE <<>>)
    ELSE <<Defect("lineEmpty", id + 1, 0)>>

RECURSIVE checkLines(_, _)
checkLines(lyric, id) ==
    IF id >= Len(lyric) THEN <<>>
    ELSE checkLine(id, lyric[id + 1]) \o checkLines(lyric, id + 1)

\* A check that says nothing about a lyric without lines.
checkLyricLinesOnly(lyric) == checkLines(lyric, 0)

\* checkLyric: the defects of the lyric, in the order they are found.
checkLyric(lyric) ==
    (IF Len(lyric) = 0 THEN <<Defect("lyricEmpty", 0, 0)>> ELSE <<>>)
        \o checkLines(lyric, 0)

\* A check that fails on a line without syllables.
checkLyricThrowsOnNoWords(lyric) ==
    \E id \in 1..Len(lyric) : Len(lyric[id].words) = 0

\* checkLyric throws a TypeError: in a line with text, word.word.trim() is
\* called on a word that is no string.
checkLyricThrows(lyric) ==
    \E id \in 1..Len(lyric) :
        /\ Len(TrimText(JoinWords(lyric[id].words))) > 0
        /\ \E wordIndex \in 1..Len(lyric[id].words) :
               ~IsString(lyric[id].words[wordIndex].word)

(***************************************************************************)
(* The document tree (jsdom): text nodes and elements with attributes and  *)
(* child nodes.  An attribute value is a text; Null stands for a missing   *)
(* attribute.                                                              *)
(***************************************************************************)
Null == <<"null">>

\* A value that counts as true in a condition: neither null nor "".
Truthy(v) == v # Null /\ v # <<>>

TextNode(t) == [type |-> "text", text |-> t]

Element(name, attrs, children) ==
    [type |-> "element", name |-> name, attrs |-> attrs, children |-> children]

NoAttrs == [a \in {} |-> Null]

getAttribute(el, a) == IF a \in DOMAIN el.attrs THEN el.attrs[a] ELSE Null

hasAttribute(el, a) == a \in DOMAIN el.attrs

setAttribute(el, a, v) == [el EXCEPT !.attrs = (a :> v) @@ @]

appendChild(el, node) == [el EXCEPT !.children = Append(@, node)]

RECURSIVE textContent(_)
textContent(node) ==
    IF node.type = "text" THEN node.text
    ELSE IF node.children = <<>> THEN <<>>
    ELSE textContent(Head(node.children))
            \o textContent([node EXCEPT !.children = Tail(@)])

RECURSIVE Reparsed(_)
\* The child nodes a parser builds from the serialization of these child
\* nodes: text nodes that stand side by side come back as one text node,
\* and an empty text node does not come back.
Reparsed(children) ==
    IF children = <<>> THEN <<>>
    ELSE LET first == Head(children)
             rest  == Reparsed(Tail(children))
         IN IF first.type = "element"
            THEN <<[first EXCEPT !.children = Reparsed(@)]>> \o rest
            ELSE IF first.text = <<>> THEN rest
            ELSE IF rest # <<>> /\ Head(rest).type = "text"
            THEN <<TextNode(first.text \o Head(rest).text)>> \o Tail(rest)
            ELSE <<first>> \o rest

(***************************************************************************)
(* parseLyricInner (the TTML reader).  The source document is given by its *)
(* ttm:agent elements and its body's p elements in document order.         *)
(***************************************************************************)
\* One turn of a loop over the amll:meta elements that makes an entry of
\* its own for every element.
metaParsedApart(metadata, key, value) ==
    IF Truthy(key) /\ Truthy(value)
    THEN Append(metadata, [key |-> key, value |-> <<value>>])
    ELSE metadata

\* One turn of the loop over the amll:meta elements: an element with a key
\* and a value adds its value to the entry of its key, or a new entry.
metaParsed(metadata, key, value) ==
    IF Truthy(key) /\ Truthy(value)
    THEN IF \E k \in 1..Len(metadata) : metadata[k].key = key
         THEN [k \in 1..Len(metadata) |->
                  IF metadata[k].key = key
                  THEN [metadata[k] EXCEPT !.value = Append(@, value)]
                  ELSE metadata[k]]
         ELSE Append(metadata, [key |-> key, value |-> <<value>>])
    ELSE metadata

RECURSIVE parseMetadata(_, _)
\* The loop over the amll:meta elements of the document.
parseMetadata(metas, metadata) ==
    IF metas = <<>> THEN metadata
    ELSE parseMetadata(Tail(metas),
                       metaParsed(metadata, getAttribute(Head(metas), "key"),
                                  getAttribute(Head(metas), "value")))

\* A loop over the ttm:agent elements that does not stop at the first
\* person agent with an id: the last one stays.
RECURSIVE mainAgentIdOfLast(_)
mainAgentIdOfLast(agents) ==
    IF agents = <<>> THEN <<"v", "1">>
    ELSE IF getAttribute(agents[Len(agents)], "type") = <<"p", "e", "r", "s", "o", "n">>
            /\ Truthy(getAttribute(agents[Len(agents)], "xml:id"))
    THEN getAttribute(agents[Len(agents)], "xml:id")
    ELSE mainAgentIdOfLast(Front(agents))

\* The first person agent with an id, v1 when there is none.
RECURSIVE mainAgentIdOf(_)
mainAgentIdOf(agents) ==
    IF agents = <<>> THEN <<"v", "1">>
    ELSE IF getAttribute(Head(agents), "type") = <<"p", "e", "r", "s", "o", "n">>
            /\ Truthy(getAttribute(Head(agents), "xml:id"))
    THEN getAttribute(Head(agents), "xml:id")
    ELSE mainAgentIdOf(Tail(agents))

\* The parentheses a background line sheds: one "(" at the start of its
\* first syllable, then one ")" at the end of its last, a syllable left
\* empty going with it.
StripLeft(words) ==
    IF words # <<>> /\ words[1].word # <<>> /\ words[1].word[1] = "("
    THEN IF Len(words[1].word) = 1 THEN Tail(words)
         ELSE <<[words[1] EXCEPT !.word = Tail(@)]>> \o Tail(words)
    ELSE words

StripRight(words) ==
    LET n == Len(words)
    IN IF n > 0 /\ words[n].word # <<>> /\ words[n].word[Len(words[n].word)] = ")"
       THEN IF Len(words[n].word) = 1 THEN Front(words)
            ELSE Front(words) \o <<[words[n] EXCEPT !.word = Front(@)]>>
       ELSE words

StripParens(line) == [line EXCEPT !.words = StripRight(StripLeft(@))]

RoleXBg == <<"x", "-", "b", "g">>

RoleXTranslation == <<"x", "-", "t", "r", "a", "n", "s", "l", "a", "t", "i", "o", "n">>

RoleXRoman == <<"x", "-", "r", "o", "m", "a", "n">>

\* The pair of parseTimespan results for an element's begin and end:
\* thrown when one of the two throws.
TimesOf(t) ==
    [thrown    |-> t["begin"].thrown \/ t["end"].thrown,
     startTime |-> t["begin"].value,
     endTime   |-> t["end"].value]

parseTimes(el) ==
    TimesOf([a \in {"begin", "end"} |-> parseTimespan(getAttribute(el, a))])

\* line.startTime and line.endTime.  Without the pair of attributes: the
\* minimum and the maximum over line.words, which holds no word yet.
lineTimes(lineEl) ==
    IF Truthy(getAttribute(lineEl, "begin")) /\ Truthy(getAttribute(lineEl, "end"))
    THEN parseTimes(lineEl)
    ELSE [thrown |-> FALSE, startTime |-> Infinity, endTime |-> 0]

\* The line object parseParseLine starts from.
newLine(lineEl, isBG, mainAgentId, times) ==
    [words |-> <<>>, translatedLyric |-> <<>>, romanLyric |-> <<>>,
     isBG |-> isBG,
     isDuet |-> /\ Truthy(getAttribute(lineEl, "ttm:agent"))
                /\ getAttribute(lineEl, "ttm:agent") # mainAgentId,
     startTime |-> times.startTime, endTime |-> times.endTime]

\* A text node: a syllable with the line's times, or with zero times when
\* it is white space.
textWord(acc, word) ==
    [acc EXCEPT !.line.words = Append(@,
        Word(word, IF Len(TrimText(word)) > 0 THEN acc.line.startTime ELSE 0,
                   IF Len(TrimText(word)) > 0 THEN acc.line.endTime ELSE 0))]

\* An element with begin and end: a syllable with its own times.
timedWord(acc, wordEl, times) ==
    IF times.thrown THEN [acc EXCEPT !.thrown = TRUE]
    ELSE [acc EXCEPT !.line.words = Append(@,
            [word |-> textContent(wordEl),
             startTime |-> times.startTime, endTime |-> times.endTime,
             emptyBeat |-> IF Truthy(getAttribute(wordEl, "amll:empty-beat"))
                           THEN NumberOfDigits(getAttribute(wordEl, "amll:empty-beat"))
                           ELSE 0])]

\* After parseParseLine(wordEl, true), which left the state bg.
bgParsed(acc, bg) ==
    [acc EXCEPT !.lyricLines = bg.lyricLines, !.thrown = bg.thrown, !.haveBg = TRUE]

\* The line is complete: a background line sheds its parentheses, and a
\* line that held a background line goes in before it.
pushLine(st, line, acc) ==
    IF acc.thrown THEN [st EXCEPT !.thrown = TRUE]
    ELSE IF acc.haveBg /\ Len(acc.lyricLines) > 0
    THEN [st EXCEPT !.lyricLines =
             Front(acc.lyricLines) \o <<line, acc.lyricLines[Len(acc.lyricLines)]>>]
    ELSE [st EXCEPT !.lyricLines = Append(acc.lyricLines, line)]

RECURSIVE parseParseLine(_, _, _, _)

\* One turn of the loop over lineEl.children, in the state
\* acc = [line, haveBg, lyricLines, thrown].
parseChildNode(acc, mainAgentId, wordNode) ==
    IF wordNode.type = "text" THEN textWord(acc, wordNode.text)
    ELSE IF wordNode.name = "span" /\ Truthy(getAttribute(wordNode, "ttm:role"))
    THEN IF getAttribute(wordNode, "ttm:role") = RoleXBg
         THEN bgParsed(acc, parseParseLine(
                  [lyricLines |-> acc.lyricLines, thrown |-> FALSE],
                  mainAgentId, wordNode, TRUE))
         ELSE IF getAttribute(wordNode, "ttm:role") = RoleXTranslation
         THEN [acc EXCEPT !.line.translatedLyric = textContent(wordNode)]
         ELSE IF getAttribute(wordNode, "ttm:role") = RoleXRoman
         THEN [acc EXCEPT !.line.romanLyric = textContent(wordNode)]
         ELSE acc
    ELSE IF hasAttribute(wordNode, "begin") /\ hasAttribute(wordNode, "end")
    THEN timedWord(acc, wordNode, parseTimes(wordNode))
    ELSE acc

RECURSIVE parseChildNodes(_, _, _)
parseChildNodes(acc, mainAgentId, childNodes) ==
    IF childNodes = <<>> \/ acc.thrown THEN acc
    ELSE parseChildNodes(parseChildNode(acc, mainAgentId, Head(childNodes)),
                         mainAgentId, Tail(childNodes))

lineParsed(st, isBG, acc) ==
    pushLine(st, IF isBG THEN StripParens(acc.line) ELSE acc.line, acc)

lineTimed(st, mainAgentId, lineEl, isBG, times) ==
    IF st.thrown \/ times.thrown THEN [st EXCEPT !.thrown = TRUE]
    ELSE lineParsed(st, isBG,
            parseChildNodes([line |-> newLine(lineEl, isBG, mainAgentId, times),
                             haveBg |-> FALSE,
                             lyricLines |-> st.lyricLines,
                             thrown |-> FALSE],
                            mainAgentId, lineEl.children))

\* parseParseLine(lineEl, isBG) in the state st = [lyricLines, thrown]:
\* the state it leaves.  A timestamp that does not parse throws, and the
\* parse is over.
parseParseLine(st, mainAgentId, lineEl, isBG) ==
    lineTimed(st, mainAgentId, lineEl, isBG, lineTimes(lineEl))

RECURSIVE querySelectorAllP(_)
\* body p[begin][end]: the p elements below these nodes that carry both
\* attributes, in document order.
querySelectorAllP(nodes) ==
    IF nodes = <<>> THEN <<>>
    ELSE LET node == Head(nodes)
             here == IF node.type = "text" THEN <<>>
                     ELSE IF node.name = "p"
                     THEN IF hasAttribute(node, "begin") /\ hasAttribute(node, "end")
                          THEN <<node>> ELSE <<>>
                     ELSE querySelectorAllP(node.children)
         IN here \o querySelectorAllP(Tail(nodes))

RECURSIVE parseLines(_, _, _)
\* The loop over the selected p elements.
parseLines(st, mainAgentId, ps) ==
    IF ps = <<>> THEN st
    ELSE parseLines(parseParseLine(st, mainAgentId, Head(ps), FALSE),
                    mainAgentId, Tail(ps))

\* parseLyricInner: the metadata and the lines of the document, or the
\* error thrown.  A document is [metas, agents, body]: its amll:meta
\* elements, its ttm:agent elements and its body element.
parseLyricInner(ttmlDoc) ==
    parseLines([metadata |-> parseMetadata(ttmlDoc.metas, <<>>),
                lyricLines |-> <<>>, thrown |-> FALSE],
               mainAgentIdOf(ttmlDoc.agents),
               querySelectorAllP(ttmlDoc.body.children))

(***************************************************************************)
(* exportTTMLTextInner (the TTML writer)                                   *)
(***************************************************************************)
RECURSIVE groupLines(_, _, _)
\* The paragraphs: a line without words closes the paragraph that is open,
\* and joins a paragraph that has no line yet.
groupLines(lyric, tmp, params) ==
    IF lyric = <<>> THEN IF Len(tmp) > 0 THEN Append(params, tmp) ELSE params
    ELSE IF Len(Head(lyric).words) = 0 /\ Len(tmp) > 0
    THEN groupLines(Tail(lyric), <<>>, Append(params, tmp))
    ELSE groupLines(Tail(lyric), Append(tmp, Head(lyric)), params)

\* The attributes begin and end, written by msToTimestamp.
timeAttrs(beginTime, endTime) ==
    [a \in {"begin", "end"} |->
        msToTimestamp(IF a = "begin" THEN beginTime ELSE endTime)]

withEmptyBeat(span, emptyBeat) ==
    IF emptyBeat # 0
    THEN setAttribute(span, "amll:empty-beat", DecimalOf(emptyBeat))
    ELSE span

createWordElement(word) ==
    withEmptyBeat(Element("span", timeAttrs(word.startTime, word.endTime),
                          <<TextNode(word.word)>>),
                  word.emptyBeat)

RoleSpan(role, text) ==
    Element("span",
            IF role = RoleXTranslation
            THEN ("ttm:role" :> role) @@ ("xml:lang" :> <<"z", "h", "-", "C", "N">>)
            ELSE ("ttm:role" :> role),
            <<TextNode(text)>>)

withRoman(el, romanLyric) ==
    IF romanLyric # <<>> THEN appendChild(el, RoleSpan(RoleXRoman, romanLyric)) ELSE el

withTranslation(el, translatedLyric) ==
    IF translatedLyric # <<>>
    THEN appendChild(el, RoleSpan(RoleXTranslation, translatedLyric))
    ELSE el

\* The x-translation and x-roman spans a line's element ends with.
appendLyrics(el, line) ==
    withRoman(withTranslation(el, line.translatedLyric), line.romanLyric)

\* The child nodes of a main line: one word is written as bare text, a
\* " " among several as a text node, any other word as a timed span.
lineWordNodes(words) ==
    IF Len(words) = 1 THEN <<TextNode(words[1].word)>>
    ELSE [k \in 1..Len(words) |->
            IF words[k].word = <<" ">> THEN TextNode(<<" ">>)
            ELSE createWordElement(words[k])]

Min(a, b) == IF a < b THEN a ELSE b

Max(a, b) == IF a > b THEN a ELSE b

\* The span of the word at wordIndex (from 1) of a background line of
\* count words: "(" goes before the first, ")" after the last.
markWord(span, wordIndex, count) ==
    IF wordIndex = 1
    THEN [span EXCEPT !.children = <<TextNode(<<"(">>)>> \o @]
    ELSE IF wordIndex = count
    THEN appendChild(span, TextNode(<<")">>))
    ELSE span

\* One turn of the loop over the words of a background line of several
\* words, in the state acc = [nodes, beginTime, endTime].
bgWord(acc, word, wordIndex, count) ==
    IF Len(TrimText(word.word)) = 0
    THEN [acc EXCEPT !.nodes = Append(@, TextNode(word.word))]
    ELSE [nodes     |-> Append(acc.nodes,
                               markWord(createWordElement(word), wordIndex, count)),
          beginTime |-> Min(acc.beginTime, word.startTime),
          endTime   |-> Max(acc.endTime, word.endTime)]

RECURSIVE bgWordNodes(_, _, _)
bgWordNodes(words, wordIndex, acc) ==
    IF wordIndex > Len(words) THEN acc
    ELSE bgWordNodes(words, wordIndex + 1,
                     bgWord(acc, words[wordIndex], wordIndex, Len(words)))

\* The child nodes and the times of the x-bg span, by the number of words.
bgWords(words) ==
    IF Len(words) > 1
    THEN bgWordNodes(words, 1, [nodes |-> <<>>, beginTime |-> Infinity, endTime |-> 0])
    ELSE IF Len(words) = 1
    THEN [nodes     |-> <<TextNode(<<"(">> \o words[1].word \o <<")">>)>>,
          beginTime |-> words[1].startTime,
          endTime   |-> words[1].endTime]
    ELSE [nodes |-> <<>>, beginTime |-> 0, endTime |-> 0]

bgWordsSpan(count, built) ==
    IF count = 0 THEN Element("span", ("ttm:role" :> RoleXBg), <<>>)
    ELSE Element("span",
                 ("ttm:role" :> RoleXBg) @@ timeAttrs(built.beginTime, built.endTime),
                 built.nodes)

\* The x-bg span of a background line.
bgLineSpan(bgLine) ==
    appendLyrics(bgWordsSpan(Len(bgLine.words), bgWords(bgLine.words)), bgLine)

\* The line after this one is a background line, written inside this one.
nextIsBG(param, lineIndex) ==
    lineIndex < Len(param) /\ param[lineIndex + 1].isBG

withBgLine(lineP, param, lineIndex) ==
    IF nextIsBG(param, lineIndex)
    THEN appendChild(lineP, bgLineSpan(param[lineIndex + 1]))
    ELSE lineP

\* The p element of the line at lineIndex (from 1) of a paragraph, the i-th
\* p element of the document.
lineElement(param, lineIndex, i) ==
    appendLyrics(
        withBgLine(
            Element("p",
                    timeAttrs(param[lineIndex].startTime, param[lineIndex].endTime)
                      @@ ("ttm:agent" :> IF param[lineIndex].isDuet
                                         THEN <<"v", "2">> ELSE <<"v", "1">>)
                      @@ ("itunes:key" :> <<"L">> \o DecimalOf(i)),
                    lineWordNodes(param[lineIndex].words)),
            param, lineIndex),
        param[lineIndex])

RECURSIVE paramLines(_, _, _)
\* The loop over the lines of one paragraph, in the state
\* acc = [ps, i]: the p elements written and the line counter.
paramLines(param, lineIndex, acc) ==
    IF lineIndex > Len(param) THEN acc
    ELSE paramLines(param,
                    IF nextIsBG(param, lineIndex) THEN lineIndex + 2
                    ELSE lineIndex + 1,
                    [ps |-> Append(acc.ps, lineElement(param, lineIndex, acc.i + 1)),
                     i  |-> acc.i + 1])

paramDiv(param, written) ==
    Element("div", timeAttrs(param[1].startTime, param[Len(param)].endTime),
            written.ps)

RECURSIVE paramDivs(_, _, _)

\* A line counter that starts again in every paragraph.
paramWrittenRestarting(params, divs, written) ==
    paramDivs(Tail(params), 0, Append(divs, paramDiv(Head(params), written)))

paramWritten(params, divs, written) ==
    paramDivs(Tail(params), written.i, Append(divs, paramDiv(Head(params), written)))

\* The loop over the paragraphs: the div elements written.
paramDivs(params, i, divs) ==
    IF params = <<>> THEN divs
    ELSE paramWritten(params, divs,
                      paramLines(Head(params), 1, [ps |-> <<>>, i |-> i]))

Agent(type, id) == Element("ttm:agent", ("type" :> type) @@ ("xml:id" :> id), <<>>)

Meta(key, value) == Element("amll:meta", ("key" :> key) @@ ("value" :> value), <<>>)

RECURSIVE metaValues(_, _)
\* The amll:meta elements of one entry, one for each value.
metaValues(key, value) ==
    IF value = <<>> THEN <<>>
    ELSE <<Meta(key, Head(value))>> \o metaValues(key, Tail(value))

RECURSIVE metaElements(_)
\* The loop over ttmlLyric.metadata.
metaElements(metadata) ==
    IF metadata = <<>> THEN <<>>
    ELSE metaValues(Head(metadata).key, Head(metadata).value)
            \o metaElements(Tail(metadata))

\* The document written for this metadata and these lines.
exportDocument(metadata, lyric) ==
    [metas  |-> metaElements(metadata),
     agents |-> <<Agent(<<"p", "e", "r", "s", "o", "n">>, <<"v", "1">>)>>
                    \o IF \E k \in 1..Len(lyric) : lyric[k].isDuet
                       THEN <<Agent(<<"o", "t", "h", "e", "r">>, <<"v", "2">>)>>
                       ELSE <<>>,
     body |-> Element("body",
                      ("dur" :> msToTimestamp(IF lyric = <<>> THEN 0
                                              ELSE lyric[Len(lyric)].endTime)),
                      paramDivs(groupLines(lyric, <<>>, <<>>), 0, <<>>))]

exportTTMLTextInner(ttmlLyric) ==
    exportDocument(ttmlLyric.metadata, ttmlLyric.lyricLines)

\* The document a parser builds from the text of a written document.
ParsedFromText(doc) == [doc EXCEPT !.body.children = Reparsed(@)]

(***************************************************************************)
(* close-stale-prs: one open pull request in one run.                      *)
(***************************************************************************)
DAYS_THRESHOLD == 7

msPerDay == 1000 * 3600 * 24

\* new Date(text).getTime() of a text that is no date (NaN): no comparison
\* with it is true.
NaN == -1

\* getLastCommitTime: the committer's or author's date of the head commit,
\* 0 when the request fails or the commit has no date.
getLastCommitTime(commit) ==
    IF commit.fails THEN 0
    ELSE IF commit.date = NaN THEN 0
    ELSE commit.date

\* prs.filter: no update for more than DAYS_THRESHOLD days.
isStale(pr, now) == (now - pr.updated_at) > DAYS_THRESHOLD * msPerDay

RECURSIVE lastChangeRequest(_)
\* reviews.reverse().find(state === "CHANGES_REQUESTED"): the index of the
\* last such review, 0 without one.
lastChangeRequest(reviews) ==
    IF reviews = <<>> THEN 0
    ELSE IF reviews[Len(reviews)].state = "CHANGES_REQUESTED" THEN Len(reviews)
    ELSE lastChangeRequest(Front(reviews))

\* reviewTime > lastCommitTime for the last review that requests changes.
reviewBlocks(pr) ==
    /\ lastChangeRequest(pr.reviews) # 0
    /\ pr.reviews[lastChangeRequest(pr.reviews)].submitted_at # NaN
    /\ pr.reviews[lastChangeRequest(pr.reviews)].submitted_at
           > getLastCommitTime(pr.head)

shouldClose(pr) == pr.waiting \/ reviewBlocks(pr)

(***************************************************************************)
(* The folder rebuild: raw-lyrics copied into the platform folders.        *)
(***************************************************************************)
NcmMusicId == <<"n", "c", "m", "M", "u", "s", "i", "c", "I", "d">>

SpotifyId == <<"s", "p", "o", "t", "i", "f", "y", "I", "d">>

QqMusicId == <<"q", "q", "M", "u", "s", "i", "c", "I", "d">>

AppleMusicId == <<"a", "p", "p", "l", "e", "M", "u", "s", "i", "c", "I", "d">>

RECURSIVE getMetadata(_, _)
\* getMetadata(ttml, key): the values of the entries of that key, in order
getMetadata(metadata, key) ==
    IF metadata = <<>> THEN <<>>
    ELSE (IF Head(metadata).key = key THEN Head(metadata).value ELSE <<>>)
             \o getMetadata(Tail(metadata), key)

RECURSIVE leadingDigits(_)
leadingDigits(t) ==
    IF t = <<>> \/ ~IsDigit(Head(t)) THEN <<>>
    ELSE <<Head(t)>> \o leadingDigits(Tail(t))

\* parseInt(file.split("-")[0]) of a file name that starts with digits
fileTime(name) == NumberOfDigits(leadingDigits(name))

RECURSIVE inserted(_, _)
\* file put behind the last file of a sorted list that is not later than it
inserted(sorted, file) ==
    IF sorted = <<>> THEN <<file>>
    ELSE IF fileTime(sorted[Len(sorted)].name) - fileTime(file.name) > 0
         THEN Append(inserted(Front(sorted), file), sorted[Len(sorted)])
         ELSE Append(sorted, file)

\* The list as readdir gave it.
sortFilesNot(files) == files

RECURSIVE sortFiles(_)
\* rawLyricFiles.sort((a, b) => aTime - bTime): ascending and stable
sortFiles(files) ==
    IF files = <<>> THEN <<>>
    ELSE inserted(sortFiles(Front(files)), files[Len(files)])

\* copyFile(filePath, join(dir, id + ".ttml")): what was there is replaced
copyFile(out, file, dir, id) ==
    {e \in out : ~(e.dir = dir /\ e.id = id)}
        \cup {[dir |-> dir, id |-> id, file |-> file]}

RECURSIVE copyAll(_, _, _, _)
\* one for loop over the ids of a platform
copyAll(out, file, dirs, ids) ==
    IF ids = <<>> THEN out
    ELSE IF dirs = <<>> THEN copyAll(out, file, dirs, Tail(ids))
    ELSE copyAll(copyFile(IF Len(dirs) = 2
                          THEN copyFile(out, file, dirs[1], Head(ids))
                          ELSE out,
                          file, dirs[Len(dirs)], Head(ids)),
                 file, dirs, Tail(ids))

\* The platform folders of a metadata key.
PlatformDirs ==
    <<[key |-> NcmMusicId, dirs |-> <<"lyrics", "ncm-lyrics">>],
      [key |-> SpotifyId, dirs |-> <<"spotify-lyrics">>],
      [key |-> QqMusicId, dirs |-> <<"qq-lyrics">>],
      [key |-> AppleMusicId, dirs |-> <<"am-lyrics">>]>>

RECURSIVE copyPlatforms(_, _, _, _)
\* the four for loops on one file, lyric being its parsed metadata
copyPlatforms(out, file, lyric, k) ==
    IF k > Len(PlatformDirs) THEN out
    ELSE copyPlatforms(copyAll(out, file, PlatformDirs[k].dirs,
                               getMetadata(lyric, PlatformDirs[k].key)),
                       file, lyric, k + 1)

(***************************************************************************)
(* The experimental submission check: the timing mode of a submission.     *)
(***************************************************************************)
\* String.prototype.includes
includes(text, part) ==
    \E i \in 1..(Len(text) - Len(part) + 1) :
        SubSeq(text, i, i + Len(part) - 1) = part

\* isLineTimedByUser
isLineTimedByUser(lyricOptions) == includes(lyricOptions, <<"[", "x", "]">>)

\* timingMode, the value of --timing-mode on the processor's command line
timingModeOf(lyricOptions) ==
    IF isLineTimedByUser(lyricOptions) THEN "line" ELSE "word"

\* Some paragraph holds a child span with a begin or an end.
hasTimedSpan(ps) ==
    \E k \in 1..Len(ps) : \E c \in 1..Len(ps[k].children) :
        /\ ps[k].children[c].type = "element"
        /\ ps[k].children[c].name = "span"
        /\ \/ Truthy(getAttribute(ps[k].children[c], "begin"))
           \/ Truthy(getAttribute(ps[k].children[c], "end"))

\* The processor: an explicit mode stands, auto is settled by the content.
processorMode(timingMode, ps) ==
    IF timingMode = "auto"
    THEN IF hasTimedSpan(ps) THEN "word" ELSE "line"
    ELSE timingMode

(***************************************************************************)
(* run-submit-check: one issue of the submission label.                    *)
(***************************************************************************)
MusicName == <<"m", "u", "s", "i", "c", "N", "a", "m", "e">>

Artists == <<"a", "r", "t", "i", "s", "t", "s">>

Album == <<"a", "l", "b", "u", "m">>

TtmlAuthorGithub ==
    <<"t", "t", "m", "l", "A", "u", "t", "h", "o", "r", "G", "i", "t", "h", "u", "b">>

TtmlAuthorGithubLogin == TtmlAuthorGithub \o <<"L", "o", "g", "i", "n">>

\* The headings of the issue form that main() reads: the direct link of the
\* file and the remarks.
UrlHeading == "url"

NoteHeading == "note"

RECURSIVE parseBodyFrom(_, _, _)
\* parseBody: a heading line opens a parameter, any other line is added to
\* the parameter of the last heading. Lines before the first heading go to
\* the parameter of the empty name.
parseBodyFrom(body, curKey, params) ==
    IF body = <<>> THEN params
    ELSE IF Head(body).heading
         THEN parseBodyFrom(Tail(body), Head(body).text,
                            [k \in DOMAIN params \cup {Head(body).text} |->
                                IF k = Head(body).text THEN <<>> ELSE params[k]])
         ELSE parseBodyFrom(Tail(body), curKey,
                            [k \in DOMAIN params \cup {curKey} |->
                                IF k = curKey
                                THEN (IF k \in DOMAIN params THEN params[k]
                                      ELSE <<"undefined">>) \o <<Head(body).text>>
                                ELSE params[k]])

parseBody(body) == parseBodyFrom(body, "", [k \in {} |-> <<>>])

\* The characters the test of a platform id refuses anywhere.
IllegalIdChars == {"|", "*", "?", "\\", ":", "<", ">", "/", "$", "\""}

\* The names the test of a platform id refuses.
ReservedIds ==
    {<<"c", "o", "n">>, <<"n", "u", "l">>, <<"p", "r", "n">>}
        \cup {<<"c", "o", "m", DigitChars[d]>> : d \in 1..10}
        \cup {<<"l", "p", "t", DigitChars[d]>> : d \in 1..10}

\* The regular expression of the platform ids: no leading dot, no reserved
\* name, no refused character, and no dot at the end.
legalId(id) ==
    /\ id # <<>>
    /\ id[1] # "."
    /\ id \notin ReservedIds
    /\ \A i \in 1..Len(id) : id[i] \notin IllegalIdChars
    /\ id[Len(id)] # "."

RECURSIVE idErrors(_, _)
idErrors(key, ids) ==
    IF ids = <<>> THEN <<>>
    ELSE (IF legalId(Head(ids)) THEN <<>>
          ELSE <<[error |-> "illegalId", key |-> key, id |-> Head(ids)]>>)
             \o idErrors(key, Tail(ids))

musicPlatformKeys == <<NcmMusicId, QqMusicId, SpotifyId, AppleMusicId>>

RECURSIVE platformErrors(_, _)
\* for (const key in musicPlatformKeyLabelPairs)
platformErrors(metadata, k) ==
    IF k > Len(musicPlatformKeys) THEN <<>>
    ELSE idErrors(musicPlatformKeys[k], getMetadata(metadata, musicPlatformKeys[k]))
             \o platformErrors(metadata, k + 1)

missingError(metadata, key) ==
    IF Len(getMetadata(metadata, key)) = 0
    THEN <<[error |-> "missing", key |-> key]>> ELSE <<>>

containsId(metadata) ==
    \E k \in 1..Len(musicPlatformKeys) :
        Len(getMetadata(metadata, musicPlatformKeys[k])) > 0

\* The errors main() collects before it calls checkLyric, the tip left out.
metadataErrors(metadata) ==
    missingError(metadata, MusicName) \o missingError(metadata, Artists)
        \o missingError(metadata, Album) \o platformErrors(metadata, 1)
        \o (IF containsId(metadata) THEN <<>> ELSE <<[error |-> "noPlatformId"]>>)

\* parsedLyric.metadata after the two push calls of if (issue.user)
authorPushed(issue, metadata) ==
    IF issue.user
    THEN metadata \o <<[key |-> TtmlAuthorGithub, value |-> <<issue.id>>],
                       [key |-> TtmlAuthorGithubLogin, value |-> <<issue.login>>]>>
    ELSE metadata

\* createComment, issues.update and issues.lock as confirmIssue and
\* declineIssue call them: a call of calls fails, and what came before it
\* stays done.
githubCalls(st, calls, site, comment) ==
    IF <<site, "createComment">> \in calls
    THEN [st EXCEPT !.thrown = TRUE, !.failed = TRUE]
    ELSE IF <<site, "update">> \in calls
    THEN [st EXCEPT !.comments = Append(@, comment), !.thrown = TRUE,
                    !.failed = TRUE]
    ELSE IF <<site, "lock">> \in calls
    THEN [st EXCEPT !.comments = Append(@, comment), !.state = "closed",
                    !.thrown = TRUE, !.failed = TRUE]
    ELSE [st EXCEPT !.comments = Append(@, comment), !.state = "closed",
                    !.locked = TRUE, !.thrown = FALSE]

confirmIssue(st, calls) == githubCalls(st, calls, "confirm", "confirmed")

declineIssue(st, calls, site) == githubCalls(st, calls, site, "declined")

\* catch (err) of the download: declineIssue
outerCatch(st, calls) == declineIssue(st, calls, "download")

caughtOuter(st, calls) == IF st.thrown THEN outerCatch(st, calls) ELSE st

\* catch (err) of the parse: declineIssue, whose error the outer catch takes
innerCatch(st, calls) == caughtOuter(declineIssue(st, calls, "parse"), calls)

caughtInner(st, calls) == IF st.thrown THEN innerCatch(st, calls) ELSE st

\* The try block that creates the branch, the file and the pull request;
\* its catch only logs.
pullRequest(st, calls, written) ==
    IF <<"git", "createBranch">> \in calls THEN [st EXCEPT !.failed = TRUE]
    ELSE IF <<"git", "push">> \in calls
    THEN [st EXCEPT !.branch = TRUE, !.file = written, !.failed = TRUE]
    ELSE IF <<"main", "pulls.create">> \in calls
    THEN [st EXCEPT !.branch = TRUE, !.file = written, !.failed = TRUE]
    ELSE [st EXCEPT !.branch = TRUE, !.file = written, !.pull = TRUE]

afterConfirm(st, calls, written) ==
    IF st.thrown THEN innerCatch(st, calls) ELSE pullRequest(st, calls, written)

\* if (errors.length > 0)
errorsBlock(errors) == Len(errors) > 0

\* The inner try block on the lyric parsed with the author's entries added.
innerTry(st, calls, parsedLyric, errors) ==
    IF parsedLyric.thrown \/ checkLyricThrows(parsedLyric.lyricLines)
    THEN innerCatch(st, calls)
    ELSE IF errorsBlock(errors \o checkLyric(parsedLyric.lyricLines))
    THEN caughtInner(declineIssue(st, calls, "errors"), calls)
    ELSE afterConfirm(confirmIssue([st EXCEPT !.handed = parsedLyric], calls),
                      calls, exportTTMLTextInner(parsedLyric))

withAuthor(issue, parsedLyric) ==
    IF parsedLyric.thrown THEN parsedLyric
    ELSE [parsedLyric EXCEPT !.metadata = authorPushed(issue, @)]

\* The outer try block: the download, then the inner try block.
outerTry(st, calls, issue, parsedLyric) ==
    IF ~issue.downloaded THEN outerCatch(st, calls)
    ELSE innerTry(st, calls, withAuthor(issue, parsedLyric),
                  IF parsedLyric.thrown THEN <<>>
                  ELSE metadataErrors(parsedLyric.metadata))

\* The body of the loop of main() for the issue, params being the
\* parameters of its body.
checkIssue(st, calls, issue, params) ==
    IF <<"main", "listComments">> \in calls \/ <<"main", "search">> \in calls
    THEN [st EXCEPT !.failed = TRUE]
    ELSE IF st.pull THEN st
    ELSE IF st.comments # <<>> THEN st
    ELSE IF NoteHeading \notin DOMAIN params THEN [st EXCEPT !.thrown = TRUE]
    ELSE IF UrlHeading \notin DOMAIN params THEN declineIssue(st, calls, "noUrl")
    ELSE outerTry(st, calls, issue, parseLyricInner(issue.file))

(***************************************************************************)
(* The codec at work: a millisecond value is formatted and the text parsed *)
(* back, or a given text is parsed.                                        *)
(***************************************************************************)
MaxMs == 1100

MaxTsLen == 5

TsChars == {"0", "1", "7", ":", ".", "s"}

MsInputs ==
    (0..MaxMs) \cup {59999, 60000, 3599999, 3600000, 4096003, 5999999}
               \cup {-1, Infinity}

TsStrings == UNION {[1..n -> TsChars] : n \in 0..MaxTsLen}

TimeOff ==
    /\ tsPc = "off"
    /\ tsMs = 0
    /\ tsText = <<>>
    /\ tsParsed = Threw

TimeInit ==
    /\ tsParsed = Threw
    /\ \/ tsPc = "ms" /\ tsMs \in MsInputs /\ tsText = <<>>
       \/ tsPc = "text" /\ tsMs = 0 /\ tsText \in TsStrings

\* msToTimestamp(tsMs)
Format ==
    /\ tsPc = "ms"
    /\ tsText' = msToTimestamp(tsMs)
    /\ tsPc' = "formatted"
    /\ UNCHANGED <<tsMs, tsParsed, nlVars, ckVars, rtVars, toolVars>>

\* parseTimespan of a given text
Parse ==
    /\ tsPc = "text"
    /\ tsParsed' = parseTimespan(tsText)
    /\ tsPc' = "parsed"
    /\ UNCHANGED <<tsMs, tsText, nlVars, ckVars, rtVars, toolVars>>

\* parseTimespan of the text msToTimestamp wrote
ParseFormatted ==
    /\ tsPc = "formatted"
    /\ tsParsed' = parseTimespan(tsText)
    /\ tsPc' = "roundtrip"
    /\ UNCHANGED <<tsMs, tsText, nlVars, ckVars, rtVars, toolVars>>

TimeNext == Format \/ Parse \/ ParseFormatted

(***************************************************************************)
(* The normalizer at work: a line is normalized, and its result normalized *)
(* again with a fresh log.                                                 *)
(***************************************************************************)
MaxWords == 3

\* The syllable texts the lines are drawn from: empty, whitespace only,
\* plain, with whitespace at either end, and with whitespace inside.
WordTexts ==
    { <<>>, <<" ">>, <<" ", "\t">>, <<"a">>, <<" ", "a">>, <<"a", " ">>,
      <<"a", " ", "b">>, <<"a", " ", "\t", "b">>, NotAString }

\* Zero timestamps (as on a text node between spans) and a timed syllable.
WordTimes == {<<0, 0>>, <<1, 2>>}

WordObjects == {Word(t, tm[1], tm[2]) : t \in WordTexts, tm \in WordTimes}

MainLine(words) ==
    [words |-> words, translatedLyric |-> <<>>, romanLyric |-> <<>>,
     isBG |-> FALSE, isDuet |-> FALSE, startTime |-> 0, endTime |-> 0]

NoResult == [newLine |-> MainLine(<<>>), changed |-> FALSE, logs |-> <<>>]

\* The two sources of normalizeLyricLine.
Impls == {"counter", "objects"}

Normalized(impl, line) ==
    IF impl = "counter" THEN normalizeLyricLine(line, <<>>)
    ELSE normalizeLyricLineByTime(line, <<>>)

NormOff ==
    /\ nlPc = "off"
    /\ nlImpl = "counter"
    /\ nlLine = MainLine(<<>>)
    /\ nlOnce = NoResult
    /\ nlTwice = NoResult

NormInit ==
    /\ nlPc = "input"
    /\ nlImpl \in Impls
    /\ nlLine \in {MainLine(w) : w \in UNION {[1..n -> WordObjects] : n \in 0..MaxWords}}
    /\ nlOnce = NoResult
    /\ nlTwice = NoResult

Normalize ==
    /\ nlPc = "input"
    /\ nlOnce' = Normalized(nlImpl, nlLine)
    /\ nlPc' = "once"
    /\ UNCHANGED <<nlImpl, nlLine, nlTwice, tsVars, ckVars, rtVars, toolVars>>

NormalizeAgain ==
    /\ nlPc = "once"
    /\ nlTwice' = Normalized(nlImpl, nlOnce.newLine)
    /\ nlPc' = "twice"
    /\ UNCHANGED <<nlImpl, nlLine, nlOnce, tsVars, ckVars, rtVars, toolVars>>

NormNext == Normalize \/ NormalizeAgain

(***************************************************************************)
(* The validator at work on a document.                                    *)
(***************************************************************************)
MaxLines == 2

\* Syllables with sound timing, a negative start, an end before the start,
\* both, and a space with unsound timing.
CheckWords ==
    { Word(<<"a">>, 0, 1), Word(<<"a">>, -1, 0), Word(<<"a">>, 100, 50),
      Word(<<"a">>, -1, -2), Word(<<" ">>, -1, -2) }

\* Line intervals: sound and unsound.
CheckLineTimes == {<<0, 1>>, <<-1, -2>>}

\* A line of bare text (its one syllable carries the line's interval)
\* that ends when it starts.
InstantLine ==
    [MainLine(<<Word(<<"a">>, 1, 1)>>) EXCEPT !.startTime = 1, !.endTime = 1]

CheckLinesOf ==
    { [MainLine(w) EXCEPT !.startTime = tm[1], !.endTime = tm[2]] :
          w \in UNION {[1..n -> CheckWords] : n \in 0..2}, tm \in CheckLineTimes }
      \cup {InstantLine}

\* Lines beyond the document model: a syllable whose text is no string, and
\* unbounded timestamps.
AnyWords ==
    { Word(<<"a">>, 0, 1), Word(NotAString, 0, 1), Word(<<"a">>, -1, Infinity),
      Word(<<" ">>, 0, 0) }

AnyLineTimes == {<<0, 1>>, <<-1, Infinity>>, <<0, 0>>}

AnyLinesOf ==
    { [MainLine(w) EXCEPT !.startTime = tm[1], !.endTime = tm[2]] :
          w \in UNION {[1..n -> AnyWords] : n \in 0..2}, tm \in AnyLineTimes }

CheckOff ==
    /\ ckPc = "off"
    /\ ckLyric = <<>>
    /\ ckErrors = <<>>

CheckInit ==
    /\ ckPc = "input"
    /\ ckLyric \in UNION {[1..n -> CheckLinesOf] : n \in 0..MaxLines}
    /\ ckErrors = <<>>

CheckAnyInit ==
    /\ ckPc = "input"
    /\ ckLyric \in UNION {[1..n -> AnyLinesOf] : n \in 0..MaxLines}
    /\ ckErrors = <<>>

\* checkLyric(lyric): the defects returned, unless it throws.
Check ==
    /\ ckPc = "input"
    /\ IF checkLyricThrows(ckLyric)
       THEN ckPc' = "threw" /\ ckErrors' = <<>>
       ELSE ckPc' = "checked" /\ ckErrors' = checkLyric(ckLyric)
    /\ UNCHANGED <<ckLyric, tsVars, nlVars, rtVars, toolVars>>

CheckNext == Check

(***************************************************************************)
(* The reader and the writer at work: a source document is parsed, the     *)
(* lines are written out, and the written text is parsed again.            *)
(***************************************************************************)
MaxPs == 2

\* The timestamp text MM:SS.fff a source document gives for ms.
Ts(ms) ==
    PadStart(DecimalOf(ms \div 60000), 2) \o <<":">>
        \o PadStart(DecimalOf((ms \div 1000) % 60), 2) \o <<".">>
        \o PadStart(DecimalOf(ms % 1000), 3)

Span(begin, end, text) ==
    Element("span", ("begin" :> Ts(begin)) @@ ("end" :> Ts(end)), <<TextNode(text)>>)

BgSpan(begin, end, children) ==
    Element("span", ("ttm:role" :> RoleXBg) @@ ("begin" :> Ts(begin))
                        @@ ("end" :> Ts(end)), children)

P(begin, end, agent, children) ==
    Element("p", ("begin" :> begin) @@ ("end" :> end) @@ ("ttm:agent" :> agent),
            children)

V1 == <<"v", "1">>

V2 == <<"v", "2">>

Hello == <<"H", "e", "l", "l", "o">>

world == <<"w", "o", "r", "l", "d">>

\* The p elements source documents are made of.
SourceParagraphs ==
    { \* two syllables with a space syllable of its own between them
      P(Ts(100), Ts(1000), V1,
        <<Span(100, 500, Hello), TextNode(<<" ">>), Span(600, 1000, world)>>),
      \* one timed syllable inside a longer line
      P(Ts(0), Ts(2000), V1, <<Span(100, 500, Hello)>>),
      \* bare text
      P(Ts(0), Ts(2000), V1, <<TextNode(Hello)>>),
      \* seconds with more than three fraction digits
      P(Ts(1000), Ts(3000), V1,
        <<Element("span", ("begin" :> <<"1", ".", "0", "0", "1", "5">>)
                              @@ ("end" :> Ts(2000)), <<TextNode(Hello)>>),
          Span(2000, 3000, world)>>),
      \* a second singer, a translation and a romanization
      P(Ts(0), Ts(500), V2,
        <<Span(0, 200, <<"a">>), Span(200, 500, <<"b">>),
          RoleSpan(RoleXTranslation, <<"t">>), RoleSpan(RoleXRoman, <<"r">>)>>),
      \* a syllable with an empty beat
      P(Ts(0), Ts(500), V1,
        <<setAttribute(Span(0, 200, <<"a">>), "amll:empty-beat", <<"2">>),
          Span(200, 500, <<"b">>)>>),
      \* background lines: one syllable, with one and with two pairs of
      \* parentheses
      P(Ts(0), Ts(500), V1,
        <<Span(0, 200, <<"a">>), Span(200, 500, <<"b">>),
          BgSpan(100, 400, <<TextNode(<<"(", "c", ")">>)>>)>>),
      P(Ts(0), Ts(500), V1,
        <<Span(0, 200, <<"a">>), Span(200, 500, <<"b">>),
          BgSpan(100, 400, <<TextNode(<<"(", "(", "c", ")", ")">>)>>)>>),
      \* several syllables, with one and with two pairs of parentheses
      P(Ts(0), Ts(500), V1,
        <<Span(0, 200, <<"a">>), Span(200, 500, <<"b">>),
          BgSpan(100, 400, <<Span(100, 200, <<"(", "c">>), TextNode(<<" ">>),
                             Span(300, 400, <<"d", ")">>)>>)>>),
      P(Ts(0), Ts(500), V1,
        <<Span(0, 200, <<"a">>), Span(200, 500, <<"b">>),
          BgSpan(100, 400, <<Span(100, 200, <<"(", "(", "c">>), TextNode(<<" ">>),
                             Span(300, 400, <<"d", ")", ")">>)>>)>>),
      \* a background line that begins with white space
      P(Ts(0), Ts(500), V1,
        <<Span(0, 200, <<"a">>), Span(200, 500, <<"b">>),
          BgSpan(100, 400, <<TextNode(<<" ">>), Span(100, 200, <<"c">>),
                             Span(300, 400, <<"d">>)>>)>>),
      \* two background lines in one line
      P(Ts(0), Ts(500), V1,
        <<BgSpan(0, 100, <<TextNode(<<"(", "c", ")">>)>>),
          Span(0, 200, <<"a">>), Span(200, 500, <<"b">>),
          BgSpan(100, 400, <<TextNode(<<"(", "d", ")">>)>>)>>),
      \* a line without content
      P(Ts(600), Ts(700), V1, <<>>),
      \* a timestamp that is no timestamp
      P(<<"s">>, Ts(700), V1, <<Span(0, 200, <<"a">>)>>) }

RECURSIVE SeqsUpTo(_, _)
SeqsUpTo(S, n) ==
    IF n = 0 THEN {<<>>}
    ELSE LET shorter == SeqsUpTo(S, n - 1)
         IN shorter \cup {Append(q, x) : q \in shorter, x \in S}

SourceDocuments ==
    {[metas  |-> <<>>,
      agents |-> <<Agent(<<"p", "e", "r", "s", "o", "n">>, V1),
                   Agent(<<"o", "t", "h", "e", "r">>, V2)>>,
      body   |-> Element("body", NoAttrs,
                         <<Element("div", NoAttrs, ps)>>)] :
        ps \in SeqsUpTo(SourceParagraphs, MaxPs)}

NoDocument ==
    [metas |-> <<>>, agents |-> <<>>, body |-> Element("body", NoAttrs, <<>>)]

NoLyric == [metadata |-> <<>>, lyricLines |-> <<>>, thrown |-> FALSE]

RoundOff ==
    /\ rtPc = "off"
    /\ rtSource = NoDocument
    /\ rtLyric = NoLyric
    /\ rtWritten = NoDocument
    /\ rtAgain = NoLyric
    /\ rtRewritten = NoDocument

RoundInit ==
    /\ rtPc = "source"
    /\ rtSource \in SourceDocuments
    /\ rtLyric = NoLyric
    /\ rtWritten = NoDocument
    /\ rtAgain = NoLyric
    /\ rtRewritten = NoDocument

\* parseLyric(ttmlText) on the source
ReadSource ==
    /\ rtPc = "source"
    /\ rtLyric' = parseLyricInner(rtSource)
    /\ rtPc' = IF rtLyric'.thrown THEN "rejected" ELSE "parsed"
    /\ UNCHANGED <<rtSource, rtWritten, rtAgain, rtRewritten, tsVars, nlVars, ckVars, toolVars>>

\* exportTTMLText(lyric) on the lines read
Serialize ==
    /\ rtPc = "parsed"
    /\ rtWritten' = exportTTMLTextInner(rtLyric)
    /\ rtPc' = "written"
    /\ UNCHANGED <<rtSource, rtLyric, rtAgain, rtRewritten, tsVars, nlVars, ckVars, toolVars>>

\* parseLyric(ttmlText) on the text written
ReadWritten ==
    /\ rtPc = "written"
    /\ rtAgain' = parseLyricInner(ParsedFromText(rtWritten))
    /\ rtPc' = "reparsed"
    /\ UNCHANGED <<rtSource, rtLyric, rtWritten, rtRewritten, tsVars, nlVars, ckVars, toolVars>>

\* exportTTMLText(lyric) on the lines read from the text written
SerializeAgain ==
    /\ rtPc = "reparsed"
    /\ ~rtAgain.thrown
    /\ rtRewritten' = exportTTMLTextInner(rtAgain)
    /\ rtPc' = "rewritten"
    /\ UNCHANGED <<rtSource, rtLyric, rtWritten, rtAgain, tsVars, nlVars, ckVars, toolVars>>

RoundNext == ReadSource \/ Serialize \/ ReadWritten \/ SerializeAgain

(***************************************************************************)
(* The reader and the writer at work on documents with metadata, on        *)
(* documents with various agents, and on documents whose lines fall into   *)
(* several paragraphs.                                                     *)
(***************************************************************************)
MaxMetas == 3

\* The amll:meta elements source documents are made of: two values of one
\* key, another key, an empty value, no key.
SourceMetas ==
    { Meta(Artists, <<"A">>), Meta(Artists, <<"B">>), Meta(Album, <<"A">>),
      Meta(Artists, <<>>), Element("amll:meta", ("value" :> <<"B">>), <<>>) }

Person == <<"p", "e", "r", "s", "o", "n">>

BodyOf(ps) == Element("body", NoAttrs, <<Element("div", NoAttrs, ps)>>)

MetaInit ==
    /\ rtPc = "source"
    /\ rtSource \in
          {[metas  |-> metas,
            agents |-> <<Agent(Person, V1)>>,
            body   |-> BodyOf(<<P(Ts(0), Ts(2000), V1, <<TextNode(Hello)>>)>>)] :
              metas \in SeqsUpTo(SourceMetas, MaxMetas)}
    /\ rtLyric = NoLyric
    /\ rtWritten = NoDocument
    /\ rtAgain = NoLyric
    /\ rtRewritten = NoDocument

MaxAgents == 2

\* The ttm:agent elements source documents are made of.
SourceAgents ==
    { Agent(Person, V1), Agent(Person, V2),
      Element("ttm:agent", ("type" :> Person), <<>>),
      Agent(<<"o", "t", "h", "e", "r">>, V2) }

\* Lines sung by v1, by v2, by nobody in particular.
AgentParagraphs ==
    { P(Ts(0), Ts(2000), V1, <<TextNode(Hello)>>),
      P(Ts(0), Ts(2000), V2, <<TextNode(Hello)>>),
      P(Ts(0), Ts(2000), <<>>, <<TextNode(Hello)>>),
      Element("p", ("begin" :> Ts(0)) @@ ("end" :> Ts(2000)), <<TextNode(Hello)>>) }

AgentsInit ==
    /\ rtPc = "source"
    /\ rtSource \in
          {[metas |-> <<>>, agents |-> agents, body |-> BodyOf(<<p>>)] :
              agents \in SeqsUpTo(SourceAgents, MaxAgents), p \in AgentParagraphs}
    /\ rtLyric = NoLyric
    /\ rtWritten = NoDocument
    /\ rtAgain = NoLyric
    /\ rtRewritten = NoDocument

MaxGroupPs == 2

\* The p elements of documents whose lines fall into several paragraphs or
\* have no begin and end of their own.
GroupParagraphs ==
    { P(Ts(0), Ts(2000), V1, <<TextNode(Hello)>>),
      \* a background line without syllables
      P(Ts(0), Ts(500), V1,
        <<Span(0, 200, <<"a">>), Span(200, 500, <<"b">>), BgSpan(100, 400, <<>>)>>),
      \* a line without syllables
      P(Ts(600), Ts(700), V1, <<>>),
      \* a background line without begin and end
      P(Ts(0), Ts(500), V1,
        <<Span(0, 200, <<"a">>), Span(200, 500, <<"b">>),
          Element("span", ("ttm:role" :> RoleXBg),
                  <<Span(100, 200, <<"c">>), Span(300, 400, <<"d">>)>>)>>),
      \* a background line in a line without syllables
      P(Ts(0), Ts(500), V1, <<BgSpan(100, 400, <<TextNode(<<"(", "c", ")">>)>>)>>),
      \* a line whose begin and end are empty
      P(<<>>, <<>>, V1, <<Span(100, 200, <<"a">>), Span(200, 500, <<"b">>)>>) }

GroupsInit ==
    /\ rtPc = "source"
    /\ rtSource \in
          {[metas |-> <<>>, agents |-> <<Agent(Person, V1)>>, body |-> BodyOf(ps)] :
              ps \in SeqsUpTo(GroupParagraphs, MaxGroupPs)}
    /\ rtLyric = NoLyric
    /\ rtWritten = NoDocument
    /\ rtAgain = NoLyric
    /\ rtRewritten = NoDocument

(***************************************************************************)
(* The stale pull request closer at work.                                  *)
(***************************************************************************)
MaxReviews == 2

Now == 10 * msPerDay

\* Reviews before and after the head commit of time 200.
PullReviews ==
    {[state |-> st, submitted_at |-> t] :
        st \in {"CHANGES_REQUESTED", "APPROVED"}, t \in {100, 300}}

\* The head commit: read, not to be had, or without a date.
HeadCommits ==
    {[fails |-> FALSE, date |-> 200], [fails |-> TRUE, date |-> 200],
     [fails |-> FALSE, date |-> NaN]}

StaleOff ==
    /\ prPc = "off"
    /\ prPull = [updated_at |-> 0, waiting |-> FALSE, reviews |-> <<>>,
                 head |-> [fails |-> FALSE, date |-> 0]]
    /\ prDryRun = FALSE
    /\ prComments = 0
    /\ prState = "open"

StaleInit ==
    /\ prPc = "open"
    /\ prPull \in
          [updated_at : {Now, Now - DAYS_THRESHOLD * msPerDay,
                         Now - DAYS_THRESHOLD * msPerDay - 1},
           waiting : BOOLEAN,
           reviews : SeqsUpTo(PullReviews, MaxReviews),
           head : HeadCommits]
    /\ prDryRun \in BOOLEAN
    /\ prComments = 0
    /\ prState = "open"

\* The loop body of run() for the pull request; createComment or
\* pulls.update may fail, which ends the turn.
ClosePull ==
    /\ prPc = "open"
    /\ prPc' = "done"
    /\ IF isStale(prPull, Now) /\ shouldClose(prPull) /\ ~prDryRun
       THEN \E failed \in {"none", "createComment", "update"} :
               /\ prComments' = IF failed = "createComment" THEN 0 ELSE 1
               /\ prState' = IF failed = "none" THEN "closed" ELSE "open"
       ELSE prComments' = 0 /\ prState' = "open"
    /\ UNCHANGED <<prPull, prDryRun, tsVars, nlVars, ckVars, rtVars, rbVars, tmVars, sbVars>>

StaleNext == ClosePull

(***************************************************************************)
(* The folder rebuild at work.                                             *)
(***************************************************************************)
MaxRawFiles == 3

\* [submission time]-[submitter's id]-[random id] as run-submit-check names
\* the files it writes; the extension is left out.
RawNames ==
    { <<"9", "-", "7", "-", "a">>, <<"1", "0", "-", "7", "-", "a">>,
      <<"1", "0", "-", "8", "-", "b">>, <<"1", "1", "-", "7", "-", "a">> }

RawMetas ==
    { <<Meta(NcmMusicId, <<"1">>)>>,
      <<Meta(NcmMusicId, <<"1">>), Meta(SpotifyId, <<"1">>)>>,
      <<Meta(NcmMusicId, <<"2">>), Meta(QqMusicId, <<"1">>),
        Meta(NcmMusicId, <<"1">>)>>,
      <<Meta(AppleMusicId, <<"1">>), Meta(SpotifyId, <<"1">>)>> }

RawFiles == {[name |-> n, metas |-> m] : n \in RawNames, m \in RawMetas}

\* The document of a raw file: its metadata around one sung line.
RawDocument(file) ==
    [metas  |-> file.metas,
     agents |-> <<Agent(Person, V1)>>,
     body   |-> Element("body", NoAttrs, <<Element("div", NoAttrs,
                   <<P(Ts(0), Ts(2000), V1, <<TextNode(Hello)>>)>>)>>)]

RECURSIVE processFiles(_, _)
\* for (const file of rawLyricFiles)
processFiles(out, files) ==
    IF files = <<>> THEN out
    ELSE processFiles(copyPlatforms(out, Head(files),
                                    parseLyricInner(RawDocument(Head(files))).metadata,
                                    1),
                      Tail(files))

rebuilt(files) == processFiles({}, sortFiles(files))

RebuildOff ==
    /\ rbPc = "off"
    /\ rbRaw = <<>>
    /\ rbOut = {}

RebuildInit ==
    /\ rbPc = "raw"
    /\ rbRaw \in {q \in SeqsUpTo(RawFiles, MaxRawFiles) :
                     \A i, j \in 1..Len(q) : q[i].name = q[j].name => i = j}
    /\ rbOut = {}

\* main() of the rebuild script up to the end of its loop
Rebuild ==
    /\ rbPc = "raw"
    /\ rbOut' = rebuilt(rbRaw)
    /\ rbPc' = "built"
    /\ UNCHANGED <<rbRaw, tsVars, nlVars, ckVars, rtVars, prVars, tmVars, sbVars>>

RebuildNext == Rebuild

(***************************************************************************)
(* The experimental submission check choosing the timing mode.             *)
(***************************************************************************)
MaxOptionLen == 4

\* The characters that decide what the text of the options holds.
OptionChars == {"[", "x", "]", " "}

\* Files: a line of text only, a line of timed spans, a line whose only
\* span is a translation without times.
ModeFiles ==
    { <<P(Ts(0), Ts(2000), V1, <<TextNode(Hello)>>)>>,
      <<P(Ts(0), Ts(1000), V1, <<Span(0, 500, <<"a">>), Span(500, 1000, <<"b">>)>>)>>,
      <<P(Ts(0), Ts(2000), V1,
          <<TextNode(Hello),
            Element("span", ("ttm:role" :> <<"x", "-", "t">>), <<TextNode(Hello)>>)>>)>> }

ModeOff ==
    /\ tmPc = "off"
    /\ tmOptions = <<>>
    /\ tmFile = <<>>
    /\ tmMode = "none"

ModeInit ==
    /\ tmPc = "issue"
    /\ tmOptions \in SeqsUpTo(OptionChars, MaxOptionLen)
    /\ tmFile \in ModeFiles
    /\ tmMode = "none"

\* main() of the experimental check from the options to the processor's run
Process ==
    /\ tmPc = "issue"
    /\ tmMode' = processorMode(timingModeOf(tmOptions), tmFile)
    /\ tmPc' = "processed"
    /\ UNCHANGED <<tmOptions, tmFile, tsVars, nlVars, ckVars, rtVars, prVars, rbVars, sbVars>>

ModeNext == Process

(***************************************************************************)
(* The submission check at work.                                           *)
(***************************************************************************)
MaxRuns == 2

MaxFailures == 2

RECURSIVE SetsUpTo(_, _)
SetsUpTo(S, n) ==
    IF n = 0 THEN {{}}
    ELSE LET smaller == SetsUpTo(S, n - 1)
         IN smaller \cup {q \cup {x} : q \in smaller, x \in S}

\* The calls of a run that may fail, by the place that makes them.
CallSites ==
    {<<"main", "listComments">>, <<"main", "search">>, <<"git", "createBranch">>,
     <<"git", "push">>, <<"main", "pulls.create">>}
        \cup ({"confirm", "noUrl", "errors", "parse", "download"}
                  \X {"createComment", "update", "lock"})

Heading(name) == [heading |-> TRUE, text |-> name]

BodyLine == [heading |-> FALSE, text |-> "text"]

\* Bodies of issues: the form filled in, the remarks left empty, a body
\* without the link, one without the remarks, and no body at all.
IssueBodies ==
    { <<Heading(UrlHeading), BodyLine, Heading(NoteHeading), BodyLine>>,
      <<Heading(UrlHeading), BodyLine, Heading(NoteHeading)>>,
      <<Heading(NoteHeading), BodyLine>>,
      <<Heading(UrlHeading), BodyLine>>,
      <<>> }

GoodMetas ==
    <<Meta(MusicName, <<"A">>), Meta(Artists, <<"A">>), Meta(Album, <<"A">>),
      Meta(NcmMusicId, <<"1">>)>>

Without(s, k) == SubSeq(s, 1, k - 1) \o SubSeq(s, k + 1, Len(s))

\* Platform ids the test refuses, and ids close to them that it lets pass.
SubmittedIds ==
    { <<"1", ".">>, <<"a", "/", "b">>, <<"c", "o", "n">>, <<".", "1">>,
      <<"c", "o", "n", "1">>, <<"1", ".", "2">> }

\* The metadata of the files: all that is required, one entry missing, a
\* second platform id, and the keys of the author declared by the file.
SubmittedMetas ==
    {GoodMetas}
        \cup {Without(GoodMetas, k) : k \in 1..Len(GoodMetas)}
        \cup {Append(GoodMetas, Meta(SpotifyId, id)) : id \in SubmittedIds}
        \cup {Append(GoodMetas, Meta(TtmlAuthorGithub, <<"9">>)),
              GoodMetas \o <<Meta(TtmlAuthorGithubLogin, <<"v">>),
                             Meta(TtmlAuthorGithub, <<"7">>)>>}

\* The lines of the files: a sung line, a line without content, a line
\* whose begin is no timestamp, no line.
SubmittedBodies ==
    { <<P(Ts(0), Ts(2000), V1, <<TextNode(Hello)>>)>>,
      <<P(Ts(0), Ts(2000), V1, <<TextNode(Hello)>>), P(Ts(600), Ts(700), V1, <<>>)>>,
      <<P(<<"s">>, Ts(700), V1, <<Span(0, 200, <<"a">>)>>)>>,
      <<>> }

SubmittedFile(metas, ps) ==
    [metas |-> metas, agents |-> <<Agent(Person, V1)>>, body |-> BodyOf(ps)]

GoodFile == SubmittedFile(GoodMetas, <<P(Ts(0), Ts(2000), V1, <<TextNode(Hello)>>)>>)

SubmittedFiles ==
    {SubmittedFile(metas, <<P(Ts(0), Ts(2000), V1, <<TextNode(Hello)>>)>>) :
        metas \in SubmittedMetas}
        \cup {SubmittedFile(GoodMetas, ps) : ps \in SubmittedBodies}

Issue(body, user, downloaded, file) ==
    [body |-> body, user |-> user, id |-> <<"7">>, login |-> <<"u">>,
     downloaded |-> downloaded, file |-> file]

Issues ==
    {Issue(body, user, downloaded, GoodFile) :
        body \in IssueBodies, user \in BOOLEAN, downloaded \in BOOLEAN}
        \cup {Issue(<<Heading(UrlHeading), BodyLine, Heading(NoteHeading), BodyLine>>,
                    user, TRUE, file) :
                  user \in BOOLEAN, file \in SubmittedFiles}

\* An open issue nothing has been done for.
Untouched ==
    [comments |-> <<>>, state |-> "open", locked |-> FALSE, branch |-> FALSE,
     file |-> NoDocument, pull |-> FALSE, handed |-> NoLyric, thrown |-> FALSE,
     failed |-> FALSE]

SubmitOff ==
    /\ sbPc = "off"
    /\ sbIssue = Issue(<<>>, FALSE, FALSE, NoDocument)
    /\ sbRuns = 0
    /\ sbSt = Untouched

SubmitInit ==
    /\ sbPc = "open"
    /\ sbIssue \in Issues
    /\ sbRuns = 0
    /\ sbSt = Untouched

\* One run of main() that finds the issue among the open issues.
CheckIssue ==
    /\ sbPc = "open"
    /\ sbRuns < MaxRuns
    /\ sbSt.state = "open"
    /\ \E calls \in SetsUpTo(CallSites, MaxFailures) :
           sbSt' = checkIssue([sbSt EXCEPT !.thrown = FALSE], calls, sbIssue,
                              parseBody(sbIssue.body))
    /\ sbRuns' = sbRuns + 1
    /\ UNCHANGED <<sbPc, sbIssue, tsVars, nlVars, ckVars, rtVars, prVars, rbVars, tmVars>>

SubmitNext == CheckIssue

ToolsOff == StaleOff /\ RebuildOff /\ ModeOff /\ SubmitOff

(***************************************************************************)
(* The specifications.                                                     *)
(***************************************************************************)
InitTime == TimeInit /\ NormOff /\ CheckOff /\ RoundOff /\ ToolsOff

SpecTime == InitTime /\ [][TimeNext]_vars


InitNorm == TimeOff /\ NormInit /\ CheckOff /\ RoundOff /\ ToolsOff

SpecNorm == InitNorm /\ [][NormNext]_vars

InitCheck == TimeOff /\ NormOff /\ CheckInit /\ RoundOff /\ ToolsOff

SpecCheck == InitCheck /\ [][CheckNext]_vars

InitCheckAny == TimeOff /\ NormOff /\ CheckAnyInit /\ RoundOff /\ ToolsOff

SpecCheckAny == InitCheckAny /\ [][CheckNext]_vars

InitMeta == TimeOff /\ NormOff /\ CheckOff /\ MetaInit /\ ToolsOff

SpecMeta == InitMeta /\ [][RoundNext]_vars

InitAgents == TimeOff /\ NormOff /\ CheckOff /\ AgentsInit /\ ToolsOff

SpecAgents == InitAgents /\ [][RoundNext]_vars

InitGroups == TimeOff /\ NormOff /\ CheckOff /\ GroupsInit /\ ToolsOff

SpecGroups == InitGroups /\ [][RoundNext]_vars

InitRound == TimeOff /\ NormOff /\ CheckOff /\ RoundInit /\ ToolsOff

SpecRound == InitRound /\ [][RoundNext]_vars

InitStale == TimeOff /\ NormOff /\ CheckOff /\ RoundOff /\ StaleInit /\ RebuildOff /\ ModeOff /\ SubmitOff

SpecStale == InitStale /\ [][StaleNext]_vars

InitRebuild == TimeOff /\ NormOff /\ CheckOff /\ RoundOff /\ StaleOff /\ RebuildInit /\ ModeOff /\ SubmitOff

SpecRebuild == InitRebuild /\ [][RebuildNext]_vars

InitMode == TimeOff /\ NormOff /\ CheckOff /\ RoundOff /\ StaleOff /\ RebuildOff /\ ModeInit /\ SubmitOff

SpecMode == InitMode /\ [][ModeNext]_vars

InitSubmit == TimeOff /\ NormOff /\ CheckOff /\ RoundOff /\ StaleOff /\ RebuildOff /\ ModeOff /\ SubmitInit

SpecSubmit == InitSubmit /\ [][SubmitNext]_vars


(***************************************************************************)
(* The timestamp grammar of the format specification, stated on its own:   *)
(* the clock form [[HH:]MM:]SS[.fff] and the seconds form n s.             *)
(***************************************************************************)
RECURSIVE SplitAt(_, _)
\* The fields of t between the occurrences of the character c.
SplitAt(t, c) ==
    IF \A i \in 1..Len(t) : t[i] # c THEN <<t>>
    ELSE LET i == CHOOSE j \in 1..Len(t) :
                      t[j] = c /\ \A k \in 1..(j - 1) : t[k] # c
         IN <<SubSeq(t, 1, i - 1)>> \o SplitAt(SubSeq(t, i + 1, Len(t)), c)

AllDigits(t) == t # <<>> /\ \A i \in 1..Len(t) : IsDigit(t[i])

\* digits, or digits "." and between lo and hi digits
IsDecimal(t, lo, hi) ==
    LET f == SplitAt(t, ".")
    IN \/ AllDigits(t)
       \/ Len(f) = 2 /\ AllDigits(f[1]) /\ AllDigits(f[2])
                     /\ Len(f[2]) >= lo /\ Len(f[2]) <= hi

\* The milliseconds a decimal number of seconds stands for (up to three
\* decimals).
DecimalMs(t) ==
    LET f == SplitAt(t, ".")
    IN NumberOfDigits(f[1]) * 1000
         + (IF Len(f) = 2 THEN NumberOfDigits(f[2]) * Pow10(3 - Len(f[2])) ELSE 0)

ClockForm(t) ==
    LET f == SplitAt(t, ":")
        n == Len(f)
    IN /\ n <= 3
       /\ \A i \in 1..(n - 1) : AllDigits(f[i])
       /\ IsDecimal(f[n], 1, 3)
       /\ n >= 2 => /\ NumberOfDigits(f[n - 1]) < 60
                    /\ NumberOfDigits(SplitAt(f[n], ".")[1]) < 60

ClockMs(t) ==
    LET f == SplitAt(t, ":")
        n == Len(f)
    IN DecimalMs(f[n])
         + (IF n >= 2 THEN NumberOfDigits(f[n - 1]) * 60000 ELSE 0)
         + (IF n = 3 THEN NumberOfDigits(f[1]) * 3600000 ELSE 0)

SecondsForm(t) ==
    /\ t # <<>>
    /\ t[Len(t)] = "s"
    /\ IsDecimal(Front(t), 1, 3)

InGrammar(t) == ClockForm(t) \/ SecondsForm(t)

GrammarMs(t) == IF ClockForm(t) THEN ClockMs(t) ELSE DecimalMs(Front(t))

\* C5: for every integer v in 0..5999999, parseTimespan(msToTimestamp(v))
\* returns v.
TimestampRoundTrip ==
    (tsPc = "roundtrip" /\ tsMs >= 0 /\ tsMs <= 5999999)
        => tsParsed = Returned(tsMs)

\* C6: parseTimespan throws on every text outside the grammar (neither the
\* clock form with minutes and seconds below 60 when a colon is present,
\* nor the seconds form with the s suffix).
ParseRejectsOutsideGrammar ==
    (tsPc = "parsed" /\ ~InGrammar(tsText)) => tsParsed.thrown

\* C7: for every text of the grammar parseTimespan returns
\* HH*3600000 + MM*60000 + SS*1000 + F, the fraction scaled by its digit
\* count, and n*1000 for the seconds form n s.
ParseValue ==
    (tsPc = "parsed" /\ InGrammar(tsText))
        => tsParsed = Returned(GrammarMs(tsText))

(***************************************************************************)
(* The normalizer's claims.                                                *)
(***************************************************************************)
\* C2: normalizeLyricLine is idempotent on its result: normalizing the
\* normalized line again returns the same syllable sequence.
NormalizeIdempotent ==
    nlPc = "twice" => nlTwice.newLine.words = nlOnce.newLine.words

\* A line with irregular whitespace whose normal form holds a synthesized
\* space between two words has been normalized twice.
NormalizeIdempotentWitness ==
    /\ nlPc = "twice"
    /\ nlOnce.newLine.words # nlLine.words
    /\ \E i \in 2..(Len(nlOnce.newLine.words) - 1) :
           nlOnce.newLine.words[i] = SpaceWord

\* C3: normalizing an already normalized line with a fresh log writes no
\* log entry and returns changed = false.
SecondPassSilent ==
    nlPc = "twice" => (nlTwice.logs = <<>> /\ ~nlTwice.changed)

\* The text a line is given without whitespace at its ends and without a
\* run of whitespace inside.
CanonicalText(t) ==
    /\ t # <<>>
    /\ ~IsWhite(t[1])
    /\ ~IsWhite(t[Len(t)])
    /\ \A i \in 1..(Len(t) - 1) : ~(IsWhite(t[i]) /\ IsWhite(t[i + 1]))

\* The syllables of the input that normalization keeps: strings with some
\* text other than whitespace.
KeptAt(words) ==
    {i \in 1..Len(words) : IsString(words[i].word) /\ TrimText(words[i].word) # <<>>}

\* Whitespace stands between the kept syllables at i < j of the input: at
\* the end of the one, at the start of the other, or as a whitespace-only
\* syllable between them.
SeparatedInInput(words, i, j) ==
    \/ TrailingLen(words[i].word) > 0
    \/ LeadingLen(words[j].word) > 0
    \/ \E k \in (i + 1)..(j - 1) :
           /\ IsString(words[k].word)
           /\ words[k].word # <<>>
           /\ AllWhite(words[k].word)

\* The position in out of its r-th syllable other than a space syllable.
NthKept(out, r) ==
    CHOOSE p \in 1..Len(out) :
        /\ out[p] # SpaceWord
        /\ Cardinality({q \in 1..p : out[q] # SpaceWord}) = r

\* C4: the syllables normalizeLyricLine (the pending-space counter) returns
\* are in canonical whitespace form: (1) every syllable other than a
\* synthesized space has no whitespace at its ends and no run of whitespace
\* inside; (2) the sequence neither begins nor ends with a space syllable;
\* (3) no two space syllables are adjacent; (4) a space syllable stands
\* between two kept syllables exactly when whitespace separated them in the
\* input.
CanonicalWhitespaceForm ==
    (nlPc = "once" /\ nlImpl = "counter") =>
        LET in   == nlLine.words
            out  == nlOnce.newLine.words
            kept == KeptAt(in)
        IN /\ \A p \in 1..Len(out) :
                  out[p] # SpaceWord => CanonicalText(out[p].word)
           /\ out # <<>> => (out[1] # SpaceWord /\ out[Len(out)] # SpaceWord)
           /\ \A p \in 1..(Len(out) - 1) :
                  ~(out[p] = SpaceWord /\ out[p + 1] = SpaceWord)
           /\ Cardinality({p \in 1..Len(out) : out[p] # SpaceWord})
                  = Cardinality(kept)
           /\ \A i, j \in kept :
                  (i < j /\ \A k \in kept : ~(i < k /\ k < j)) =>
                      LET r == Cardinality({k \in kept : k <= i})
                      IN (NthKept(out, r + 1) - NthKept(out, r) = 2)
                             <=> SeparatedInInput(in, i, j)

\* A line with two kept syllables that whitespace separates and two that
\* nothing separates has been normalized.
CanonicalWhitespaceFormWitness ==
    /\ nlPc = "once"
    /\ nlImpl = "counter"
    /\ nlOnce.changed
    /\ Len(nlOnce.newLine.words) = 4
    /\ Cardinality({p \in 1..4 : nlOnce.newLine.words[p] = SpaceWord}) = 1

(***************************************************************************)
(* The validator's claims.                                                 *)
(***************************************************************************)
Count(errors, d) == Cardinality({i \in 1..Len(errors) : errors[i] = d})

LineHasText(line) == TrimText(JoinWords(line.words)) # <<>>

\* C9: for every line with text, checkLyric returns exactly one defect for
\* each syllable other than whitespace whose start is negative and exactly
\* one for each whose end is before its start, naming the line and syllable
\* from 1; whitespace-only syllables produce none; and a document whose
\* only violation is one syllable ending before it starts yields exactly
\* one defect.
SyllableDefectsComplete ==
    ckPc = "checked" =>
        /\ \A l \in 1..Len(ckLyric) : \A w \in 1..Len(ckLyric[l].words) :
               LET word  == ckLyric[l].words[w]
                   sound == LineHasText(ckLyric[l]) /\ ~AllWhite(word.word)
               IN /\ Count(ckErrors, Defect("wordStart", l, w))
                        = IF sound /\ word.startTime < 0 THEN 1 ELSE 0
                  /\ Count(ckErrors, Defect("wordEnd", l, w))
                        = IF sound /\ word.endTime < word.startTime THEN 1 ELSE 0
        /\ \A i \in 1..Len(ckErrors) :
               ckErrors[i].kind \in {"wordStart", "wordEnd"} =>
                   /\ ckErrors[i].line \in 1..Len(ckLyric)
                   /\ ckErrors[i].word \in 1..Len(ckLyric[ckErrors[i].line].words)
        /\ ( /\ Len(ckLyric) > 0
             /\ \A l \in 1..Len(ckLyric) :
                    /\ LineHasText(ckLyric[l])
                    /\ ckLyric[l].startTime >= 0
                    /\ ckLyric[l].endTime >= ckLyric[l].startTime
             /\ Cardinality(UNION {
                    {<<l, w>> : w \in {v \in 1..Len(ckLyric[l].words) :
                        /\ ~AllWhite(ckLyric[l].words[v].word)
                        /\ \/ ckLyric[l].words[v].startTime < 0
                           \/ ckLyric[l].words[v].endTime
                                  < ckLyric[l].words[v].startTime}} :
                    l \in 1..Len(ckLyric)}) = 1
             /\ \E l \in 1..Len(ckLyric) : \E w \in 1..Len(ckLyric[l].words) :
                    ckLyric[l].words[w] = Word(<<"a">>, 100, 50) )
             => Len(ckErrors) = 1

\* A document with a syllable of each kind has been validated: one with a
\* negative start, one that ends before it starts, and a space with
\* unsound timing.
SyllableDefectsWitness ==
    /\ ckPc = "checked"
    /\ \E l \in 1..Len(ckLyric) :
           /\ Len(ckLyric[l].words) = 2
           /\ ckLyric[l].words[1] = Word(<<"a">>, -1, -2)
           /\ ckLyric[l].words[2] = Word(<<" ">>, -1, -2)
    /\ \E l \in 1..Len(ckLyric) :
           ckLyric[l].words = <<Word(<<"a">>, 100, 50)>>

\* C10: on a document with zero lines checkLyric returns exactly one
\* defect, the document-level one, and no other.
EmptyLyricOneDefect ==
    (ckPc = "checked" /\ Len(ckLyric) = 0)
        => ckErrors = <<Defect("lyricEmpty", 0, 0)>>

\* The document with zero lines has been validated.
EmptyLyricWitness == ckPc = "checked" /\ Len(ckLyric) = 0

(***************************************************************************)
(* The reader and the writer                                               *)
(***************************************************************************)
\* A p element of the document has a timed child span.
WordTimed(doc) ==
    \E p \in Range(querySelectorAllP(doc.body.children)) :
        \E node \in Range(p.children) :
            /\ node.type = "element"
            /\ ~hasAttribute(node, "ttm:role")
            /\ hasAttribute(node, "begin") /\ hasAttribute(node, "end")

\* What the round trip is to keep of a line: its syllables' texts and
\* timestamps, the space syllables among them.
Syllables(line) ==
    [k \in 1..Len(line.words) |->
        <<line.words[k].word, line.words[k].startTime, line.words[k].endTime>>]

\* C1: for every word-timed document d the reader produced, whose lines
\* each have one or more syllables, parsing the text written for d yields
\* the same lines in the same order, every line with the same syllable
\* texts, the same syllable start and end timestamps and the same space
\* syllables as d.
RoundTripKeepsSyllables ==
    (/\ rtPc = "reparsed"
     /\ WordTimed(rtSource)
     /\ \A k \in 1..Len(rtLyric.lyricLines) : Len(rtLyric.lyricLines[k].words) >= 1)
        => /\ ~rtAgain.thrown
           /\ Len(rtAgain.lyricLines) = Len(rtLyric.lyricLines)
           /\ \A k \in 1..Len(rtLyric.lyricLines) :
                Syllables(rtAgain.lyricLines[k]) = Syllables(rtLyric.lyricLines[k])

RECURSIVE LeadingCount(_, _)
\* How many times the character c stands at the start of the text.
LeadingCount(text, c) ==
    IF text # <<>> /\ Head(text) = c THEN 1 + LeadingCount(Tail(text), c) ELSE 0

RECURSIVE TrailingCount(_, _)
TrailingCount(text, c) ==
    IF text # <<>> /\ text[Len(text)] = c THEN 1 + TrailingCount(Front(text), c) ELSE 0

\* The text of the syllables of a written x-bg span: its text without that
\* of its x-translation and x-roman spans.
RECURSIVE SungText(_)
SungText(nodes) ==
    IF nodes = <<>> THEN <<>>
    ELSE (IF Head(nodes).type = "element" /\ hasAttribute(Head(nodes), "ttm:role")
          THEN <<>> ELSE textContent(Head(nodes))) \o SungText(Tail(nodes))

\* The x-bg spans of the written document.
WrittenBgSpans ==
    {node \in UNION {Range(p.children) :
                        p \in Range(querySelectorAllP(rtWritten.body.children))} :
        node.type = "element" /\ getAttribute(node, "ttm:role") = RoleXBg}

\* C8: for every background line with a syllable that is not white space,
\* the text of the x-bg span written for it starts with one "(" more than
\* the stored text when the stored first syllable does not start with "(",
\* and with no "(" more when it does; likewise for ")" at the end and the
\* stored last syllable.
BgParenthesesNeverDoubled ==
    rtPc \in {"written", "reparsed", "rewritten"} =>
        \A k \in 1..Len(rtLyric.lyricLines) :
            LET bgLine == rtLyric.lyricLines[k]
                stored == JoinWords(bgLine.words)
                text   == SungText(bgLineSpan(bgLine).children)
                first  == bgLine.words[1].word
                last   == bgLine.words[Len(bgLine.words)].word
            IN (/\ bgLine.isBG
                /\ \E w \in Range(bgLine.words) : ~AllWhite(w.word)
                /\ bgLineSpan(bgLine) \in WrittenBgSpans)
                  => /\ LeadingCount(text, "(") =
                          IF first # <<>> /\ Head(first) = "("
                          THEN LeadingCount(stored, "(")
                          ELSE LeadingCount(stored, "(") + 1
                     /\ TrailingCount(text, ")") =
                          IF last # <<>> /\ last[Len(last)] = ")"
                          THEN TrailingCount(stored, ")")
                          ELSE TrailingCount(stored, ")") + 1

(***************************************************************************)
(* The validator: empty lines, line intervals, failures.                   *)
(***************************************************************************)
\* C11: for every line whose joined syllable text is empty after trimming
\* (no syllables, or white space only), checkLyric returns exactly one
\* "line N is empty" defect with the line's number from 1, and no timing
\* defect for the line or its syllables, whatever their timestamps.
EmptyLineOneDefect ==
    ckPc = "checked" =>
        \A l \in 1..Len(ckLyric) :
            ~LineHasText(ckLyric[l]) =>
                /\ Count(ckErrors, Defect("lineEmpty", l, 0)) = 1
                /\ \A i \in 1..Len(ckErrors) :
                       ckErrors[i].line = l => ckErrors[i].kind = "lineEmpty"

\* Validated: a line without syllables and a line of one space, both with
\* unsound timestamps, the second after a line with text.
EmptyLineWitness ==
    /\ ckPc = "checked"
    /\ Len(ckLyric) = 2
    /\ LineHasText(ckLyric[1])
    /\ ckLyric[2].words = <<Word(<<" ">>, -1, -2)>>
    /\ ckLyric[2].startTime = -1 /\ ckLyric[2].endTime = -2

\* No syllable of the line has timestamps of its own: each one that is not
\* white space carries the line's interval.
LineTimed(line) ==
    \A w \in 1..Len(line.words) :
        AllWhite(line.words[w].word)
            \/ /\ line.words[w].startTime = line.startTime
               /\ line.words[w].endTime = line.endTime

\* C12: for every line with text checkLyric returns a defect when the
\* line's start is negative and when its end is before its start; for a
\* line without syllable timing it returns a defect also when the end
\* equals the start.
LineTimingRule ==
    ckPc = "checked" =>
        \A l \in 1..Len(ckLyric) :
            LineHasText(ckLyric[l]) =>
                /\ ckLyric[l].startTime < 0
                       => Count(ckErrors, Defect("lineStart", l, 0)) >= 1
                /\ ckLyric[l].endTime < ckLyric[l].startTime
                       => Count(ckErrors, Defect("lineEnd", l, 0)) >= 1
                /\ (LineTimed(ckLyric[l]) /\ ckLyric[l].endTime = ckLyric[l].startTime)
                       => \E i \in 1..Len(ckErrors) :
                              /\ ckErrors[i].line = l
                              /\ ckErrors[i].kind \in {"lineStart", "lineEnd"}

\* Every syllable text of the lyric is a string.
IsDocument(lyric) ==
    \A l \in 1..Len(lyric) : \A w \in 1..Len(lyric[l].words) :
        IsString(lyric[l].words[w].word)

\* C13: for every document (any number of lines, any number of syllables
\* in a line, none included, any timestamps, negative, zero and unbounded
\* included) checkLyric returns its list of defects and throws nothing.
ValidateNeverThrows ==
    (ckPc \in {"checked", "threw"} /\ IsDocument(ckLyric)) => ckPc = "checked"

\* Validated without failure: a document with a line without syllables and
\* a line with a negative and an unbounded timestamp.
ValidateNeverThrowsWitness ==
    /\ ckPc = "checked"
    /\ IsDocument(ckLyric)
    /\ \E l \in 1..Len(ckLyric) : ckLyric[l].words = <<>>
    /\ \E l \in 1..Len(ckLyric) :
           /\ ckLyric[l].endTime = Infinity
           /\ ckLyric[l].words = <<Word(<<"a">>, -1, Infinity)>>

(***************************************************************************)
(* The writer's timestamp of an unbounded time.                            *)
(***************************************************************************)
\* C18: msToTimestamp of the unbounded time (Infinity) returns the text
\* 99:99.999, and not the zero timestamp 00:00.000.
UnboundedSentinel ==
    (tsPc = "formatted" /\ tsMs = Infinity)
        => tsText = <<"9", "9", ":", "9", "9", ".", "9", "9", "9">>

(***************************************************************************)
(* The reader: metadata, the main singer, background lines, intervals.     *)
(***************************************************************************)
\* The indices of the source's amll:meta elements that carry a key and a
\* value.
MetaIndices ==
    {k \in 1..Len(rtSource.metas) :
        /\ Truthy(getAttribute(rtSource.metas[k], "key"))
        /\ Truthy(getAttribute(rtSource.metas[k], "value"))}

MetaKey(k) == getAttribute(rtSource.metas[k], "key")

\* The index of the first amll:meta element with this key.
FirstWithKey(key) ==
    CHOOSE k \in MetaIndices :
        /\ MetaKey(k) = key
        /\ \A j \in MetaIndices : MetaKey(j) = key => k <= j

\* The values of the key in document order.
ValuesOfKey(key) ==
    LET with == SelectSeq(rtSource.metas,
                    LAMBDA meta : /\ Truthy(getAttribute(meta, "value"))
                                  /\ getAttribute(meta, "key") = key)
    IN [k \in 1..Len(with) |-> getAttribute(with[k], "value")]

PersonAgents ==
    {k \in 1..Len(rtSource.agents) : getAttribute(rtSource.agents[k], "type") = Person}

\* The indices of the source's person agents that carry an id.
PersonAgentsWithId ==
    {k \in PersonAgents : Truthy(getAttribute(rtSource.agents[k], "xml:id"))}

\* The xml:id of the agent with the least of these indices, v1 without one.
FirstIdAmong(indices) ==
    IF indices = {} THEN V1
    ELSE getAttribute(rtSource.agents[CHOOSE k \in indices : \A j \in indices : k <= j],
                      "xml:id")

\* The one p element of the source.
SourceP == rtSource.body.children[1].children[1]

\* C15 as stated: the main id is the xml:id of the first person agent (v1
\* without a person agent), and a line read has isDuet exactly when its
\* ttm:agent attribute is present and differs from the main id.
MainAgentFirstPerson ==
    rtPc \in {"parsed", "written", "reparsed", "rewritten"} =>
        (rtLyric.lyricLines[1].isDuet
            <=> /\ hasAttribute(SourceP, "ttm:agent")
                /\ getAttribute(SourceP, "ttm:agent") # FirstIdAmong(PersonAgents))

\* C15, amended: the main id is the xml:id of the first person agent that
\* carries a non-empty xml:id (v1 without one), whatever person agents
\* follow it, and a line read has isDuet exactly when its ttm:agent
\* attribute is present, not empty, and differs from the main id.
MainAgentFirstPersonWithId ==
    rtPc \in {"parsed", "written", "reparsed", "rewritten"} =>
        (rtLyric.lyricLines[1].isDuet
            <=> /\ Truthy(getAttribute(SourceP, "ttm:agent"))
                /\ getAttribute(SourceP, "ttm:agent") # FirstIdAmong(PersonAgentsWithId))

\* Read: the person agents v2 and v1 in this order, and a line of v1, which
\* is a duet line.
MainAgentWitness ==
    /\ rtPc = "parsed"
    /\ rtSource.agents = <<Agent(Person, V2), Agent(Person, V1)>>
    /\ getAttribute(SourceP, "ttm:agent") = V1
    /\ rtLyric.lyricLines[1].isDuet

\* C16: in the lines read, every background line comes directly after a
\* line that is no background line.
BgFollowsMain ==
    rtPc \in {"parsed", "written", "reparsed", "rewritten"} =>
        \A k \in 1..Len(rtLyric.lyricLines) :
            rtLyric.lyricLines[k].isBG
                => k > 1 /\ ~rtLyric.lyricLines[k - 1].isBG

\* The p elements of the source.
SourcePs == querySelectorAllP(rtSource.body.children)

NoPair(el) ==
    ~(Truthy(getAttribute(el, "begin")) /\ Truthy(getAttribute(el, "end")))

BgChildren(el) ==
    SelectSeq(el.children,
              LAMBDA node : node.type = "element"
                              /\ getAttribute(node, "ttm:role") = RoleXBg)

\* The line's interval is the least start and the greatest end of its
\* syllables.
Derived(line) ==
    line.words # <<>> =>
        /\ \A w \in 1..Len(line.words) :
               /\ line.startTime <= line.words[w].startTime
               /\ line.endTime >= line.words[w].endTime
        /\ \E w \in 1..Len(line.words) : line.startTime = line.words[w].startTime
        /\ \E w \in 1..Len(line.words) : line.endTime = line.words[w].endTime

\* C17: of a source of one p element, the line read from a p element
\* without a pair of begin and end, and the background line read from an
\* x-bg span without one, have the least start and the greatest end of
\* their syllables.
DerivedLineInterval ==
    (rtPc \in {"parsed", "written", "reparsed", "rewritten"} /\ Len(SourcePs) = 1) =>
        /\ (NoPair(SourcePs[1]) /\ BgChildren(SourcePs[1]) = <<>>)
               => Derived(rtLyric.lyricLines[1])
        /\ (Len(BgChildren(SourcePs[1])) = 1 /\ NoPair(BgChildren(SourcePs[1])[1]))
               => Derived(rtLyric.lyricLines[2])

(***************************************************************************)
(* The writer: line numbers and background lines.                          *)
(***************************************************************************)
\* The p elements of the written document.
WrittenPs == querySelectorAllP(rtWritten.body.children)

\* C19: the p elements written carry the itunes:key values L1, L2, ..., Lk
\* in the order of the document, through all div elements.
LineKeysSequential ==
    rtPc \in {"written", "reparsed", "rewritten"} =>
        \A k \in 1..Len(WrittenPs) :
            getAttribute(WrittenPs[k], "itunes:key") = <<"L">> \o DecimalOf(k)

\* Written: two div elements, each with a p element.
LineKeysWitness ==
    /\ rtPc = "written"
    /\ Len(rtWritten.body.children) = 2
    /\ Len(rtWritten.body.children[2].children) >= 1
    /\ Len(WrittenPs) >= 2

\* C20: every background line read is written once, as an x-bg span inside
\* a p element: there are as many x-bg spans inside the p elements as
\* background lines, and no p element holds the text of a background line
\* alone.
BgNeverOwnParagraph ==
    rtPc \in {"written", "reparsed", "rewritten"} =>
        Cardinality({k \in 1..Len(WrittenPs) :
                        BgChildren(WrittenPs[k]) # <<>>})
            = Cardinality({k \in 1..Len(rtLyric.lyricLines) :
                              rtLyric.lyricLines[k].isBG})

\* A child node that holds a syllable: a text node, or a span without role.
IsWordNode(node) ==
    node.type = "text" \/ ~Truthy(getAttribute(node, "ttm:role"))

\* C21: the writer splits the lines at the lines without syllables, and no
\* line without syllables (at the start, at the end, or after another one)
\* is written as a p element: every p element written holds a syllable.
NoEmptyLineWritten ==
    rtPc \in {"written", "reparsed", "rewritten"} =>
        \A k \in 1..Len(WrittenPs) :
            \E c \in 1..Len(WrittenPs[k].children) :
                IsWordNode(WrittenPs[k].children[c])

RECURSIVE ElementsBelow(_)
\* The elements below these nodes.
ElementsBelow(nodes) ==
    IF nodes = <<>> THEN {}
    ELSE (IF Head(nodes).type = "element"
          THEN {Head(nodes)} \cup ElementsBelow(Head(nodes).children)
          ELSE {})
         \cup ElementsBelow(Tail(nodes))

\* The begin and end timestamps written below the body.
WrittenTimestamps ==
    {getAttribute(el, a) :
        el \in ElementsBelow(rtWritten.body.children), a \in {"begin", "end"}}
      \ {Null}

\* C22: in the document written, the body's dur is at least every begin
\* and end timestamp of a div, p or span.
DurCoversTimestamps ==
    rtPc \in {"written", "reparsed", "rewritten"} =>
        \A t \in WrittenTimestamps :
            ClockMs(t) <= ClockMs(getAttribute(rtWritten.body, "dur"))

(***************************************************************************)
(* The normalizer's log.                                                   *)
(***************************************************************************)
\* C23: normalizeLyricLine (part_000) drops nothing without a log entry:
\* whenever the syllables it returns differ from the ones it was given (a
\* syllable left out, white space removed), the log holds an entry after
\* the call.
NothingDroppedSilently ==
    (nlPc \in {"once", "twice"} /\ nlImpl = "counter"
        /\ nlOnce.newLine.words # nlLine.words)
            => nlOnce.logs # <<>>

(***************************************************************************)
(* The text written, read and written again.                               *)
(***************************************************************************)
\* C24: the text the writer makes of the lines read from a text it wrote
\* is that text again.
WrittenTextFixedPoint ==
    rtPc = "rewritten" => ParsedFromText(rtRewritten) = ParsedFromText(rtWritten)

(***************************************************************************)
(* The stale pull request closer.                                          *)
(***************************************************************************)
\* The last review of the pull request that requests changes was submitted
\* after the head commit, whose time is known.
ReviewAfterHeadCommit ==
    \E k \in 1..Len(prPull.reviews) :
        /\ prPull.reviews[k].state = "CHANGES_REQUESTED"
        /\ \A j \in (k + 1)..Len(prPull.reviews) :
               prPull.reviews[j].state # "CHANGES_REQUESTED"
        /\ ~prPull.head.fails /\ prPull.head.date # NaN
        /\ prPull.reviews[k].submitted_at > prPull.head.date

\* C29: a pull request is commented on or closed only if the run is no
\* dry run, the pull request had no update for more than DAYS_THRESHOLD
\* days, and it carries the label or its last review that requests changes
\* came after its head commit; without the head commit's time the review
\* does not count.
StaleCloseOnlyWhenDue ==
    (prPc = "done" /\ (prComments > 0 \/ prState = "closed"))
        => /\ ~prDryRun
           /\ Now - prPull.updated_at > DAYS_THRESHOLD * msPerDay
           /\ prPull.waiting \/ ReviewAfterHeadCommit

(***************************************************************************)
(* The folder rebuild.                                                     *)
(***************************************************************************)
\* The raw files whose metadata lists id under the key.
RawListing(key, id) ==
    {k \in 1..Len(rbRaw) :
        \E m \in 1..Len(rbRaw[k].metas) :
            /\ getAttribute(rbRaw[k].metas[m], "key") = key
            /\ getAttribute(rbRaw[k].metas[m], "value") = id}

PlatformIds == {<<"1">>, <<"2">>}

\* C28: after the rebuild, for every platform folder and every id some raw
\* file lists for that platform, the folder holds exactly one file of that
\* id, and it is a copy of a raw file that lists the id and whose submission
\* time is the greatest among the raw files that list the id.
LatestSubmissionPublished ==
    rbPc = "built" =>
        \A p \in 1..Len(PlatformDirs), id \in PlatformIds :
            \A d \in 1..Len(PlatformDirs[p].dirs) :
                LET listing == RawListing(PlatformDirs[p].key, id)
                    there == {e \in rbOut : e.dir = PlatformDirs[p].dirs[d] /\ e.id = id}
                IN  IF listing = {} THEN there = {}
                    ELSE /\ Cardinality(there) = 1
                         /\ \A e \in there :
                               \E k \in listing :
                                   /\ rbRaw[k] = e.file
                                   /\ \A j \in listing :
                                          fileTime(rbRaw[j].name) <= fileTime(rbRaw[k].name)

\* readdir lists a later submission before an earlier one of the same id,
\* the later name being the smaller text.
LatestSubmissionWitness ==
    /\ rbPc = "built"
    /\ rbOut # {}
    /\ \E i, j \in RawListing(NcmMusicId, <<"1">>) :
           /\ i < j
           /\ rbRaw[i].name[1] = "1" /\ rbRaw[j].name[1] = "9"

(***************************************************************************)
(* The timing mode of a submission.                                        *)
(***************************************************************************)
\* The box of the line-by-line option is ticked in the text of the options.
BoxTicked ==
    \E i \in 1..Len(tmOptions) :
        i + 2 <= Len(tmOptions)
            /\ tmOptions[i] = "[" /\ tmOptions[i + 1] = "x" /\ tmOptions[i + 2] = "]"

\* C25: a submission whose line-by-line box is not ticked is processed in
\* the mode its content shows: word-timed when some paragraph holds a timed
\* span, line-timed otherwise; a ticked box makes it line-timed.
ModeByInspectionUnlessDeclared ==
    tmPc = "processed" =>
        tmMode = IF BoxTicked THEN "line"
                 ELSE IF \E k \in 1..Len(tmFile) : \E c \in 1..Len(tmFile[k].children) :
                            /\ tmFile[k].children[c].type = "element"
                            /\ Truthy(getAttribute(tmFile[k].children[c], "begin"))
                      THEN "word" ELSE "line"

(***************************************************************************)
(* The submission check.                                                   *)
(***************************************************************************)
HasHeading(name) ==
    \E k \in 1..Len(sbIssue.body) :
        sbIssue.body[k].heading /\ sbIssue.body[k].text = name

\* The file behind the link of the issue was downloaded, was parsed without
\* error and has no defect: none of its metadata, none of its platform ids,
\* none that checkLyric finds.
GatePassed ==
    /\ HasHeading(UrlHeading)
    /\ sbIssue.downloaded
    /\ ~parseLyricInner(sbIssue.file).thrown
    /\ ~checkLyricThrows(parseLyricInner(sbIssue.file).lyricLines)
    /\ metadataErrors(parseLyricInner(sbIssue.file).metadata) = <<>>
    /\ checkLyric(parseLyricInner(sbIssue.file).lyricLines) = <<>>

NothingCreated == ~sbSt.branch /\ sbSt.file = NoDocument /\ ~sbSt.pull

\* C26: once a run has taken the issue up and no call of it failed, a
\* branch, a file or a pull request exists only if the file was downloaded,
\* parsed without error and found without defect; in every other case the
\* issue is declined and nothing is created.
SubmissionGate ==
    (sbRuns > 0 /\ ~sbSt.failed) =>
        /\ ~NothingCreated => GatePassed
        /\ ~GatePassed =>
              /\ NothingCreated
              /\ sbSt.comments = <<"declined">>
              /\ sbSt.state = "closed"

\* C27: the issue never has more than one comment of the check, whatever
\* the runs and whichever calls fail.
AtMostOneVerdict == Len(sbSt.comments) <= 1

\* C30: the metadata handed to exportTTMLText has no two entries of one
\* key.
HandedKeysUnique ==
    \A i, j \in 1..Len(sbSt.handed.metadata) :
        sbSt.handed.metadata[i].key = sbSt.handed.metadata[j].key => i = j

=============================================================================
